---- MODULE Spec2Model ----
(***************************************************************************)
(* Model of the market-maker engine of polymarket-terminal:                *)
(*   - the wallet-tx serializer (ctf.js: execSafeCall / _doExecSafeCall),  *)
(*   - the per-asset dispatcher (mm.js: handleNewMarket / runStrategy)     *)
(*     with the position task (mmExecutor.js: executeMMStrategy),          *)
(*   - the adaptive cut-loss controller (mmExecutor.js: adaptiveLegCL).    *)
(* Each part has its own specification over the shared variables; the      *)
(* variables of the other parts stay at their initial values.              *)
(*                                                                         *)
(* Time is counted in ticks of 250 ms (TicksPerSec ticks per second) so    *)
(* that Math.round on seconds is observable.  Prices are in cents.         *)
(***************************************************************************)
EXTENDS Integers, Sequences, FiniteSets, TLC

(***************************************************************************)
(* Bounds of the model                                                     *)
(***************************************************************************)
NCalls == 2          \* exec calls issued by the tasks of one run
NMarkets == 4        \* markets the detector emits in one run
MaxNow == 13         \* time horizon, in ticks
SlotTicks == 6       \* length of a market slot, in ticks (SLOT_SEC, scaled down)
FreshTicks == 1      \* freshness window after a slot opens, in ticks (15 s, scaled down)
PollTicks == 2       \* poll period of the adaptive controller, in ticks (mmAdaptiveMonitorSec, scaled down)
MaxSplits == 2       \* splitPosition calls of one run
MonitorTicks == 1   \* sleep(10_000) of the monitor loop, in ticks
MaxLimits == 2      \* limit SELLs the adaptive controller posts for one position
MaxLeft == 8        \* remaining lifetime of a market when its monitor loop starts, in ticks
MaxRedeems == 1     \* runs of the periodic redeemer
MaxCancels == 3     \* logged cancelOrder calls
NPolls == 2         \* polls of the detector in one run
NPasses == 2        \* passes of the redeemer in one run
NEvents == 3        \* copy-trade BUY events of one market

(***************************************************************************)
(* Program constants                                                       *)
(***************************************************************************)
MAX_RETRIES == 3     \* ctf.js: const MAX_RETRIES = 3
TicksPerSec == 4     \* Date.now() is in ms and the code divides by 1000; a tick is 250 ms
mmCutLossTime == 1   \* config.mmCutLossTime, in seconds (MM_CUT_LOSS_TIME)
MIN_SHARES_PER_SIDE == 25  \* ctf.js: MIN_SHARES_PER_SIDE = 2.5, in tenths of a share
MaxAllowance == 1000 \* ethers.constants.MaxUint256: above every amount of the model
mmPollInterval == 2  \* config.mmPollInterval, in ticks (MM_POLL_INTERVAL, scaled down)
mmRecoveryThreshold == 70  \* config.mmRecoveryThreshold, in cents (MM_RECOVERY_THRESHOLD)
RecoveryHoldTicks == 2     \* attemptRecoveryBuy: sleep(30_000), in ticks (scaled down)
ClosingTicks == 1          \* attemptRecoveryBuy: msLeft < 5_000, in ticks (scaled down)
RedeemDust == 2      \* redeemMMPositions: totalShares < 0.001, in units of 0.0005 share
MIN_TIP == 30        \* _doExecSafeCall: MIN_TIP = parseUnits('30', 'gwei'), in gwei
DefaultFeeCap == 500 \* _doExecSafeCall: parseUnits('500', 'gwei'), in gwei
maxPositionSize == 10 \* config.maxPositionSize (MAX_POSITION_SIZE), in USDC
sizePercent == 50    \* config.sizePercent (SIZE_PERCENT)
minTradeSize == 1    \* config.minTradeSize (MIN_TRADE_SIZE), in USDC

Calls == 1..NCalls
Markets == 1..NMarkets
Assets == {"btc", "eth"}          \* config.mmAssets
NoMarket == 0
Polls == 1..NPolls
Passes == 1..NPasses
Events == 1..NEvents
Absent == 0 - 1                   \* a fee the oracle's answer does not carry (null / undefined)
OracleTips == {Absent, 0, 25, 29, 30, 31, 50, 100, 499, 600}    \* feeData.maxPriorityFeePerGas, in gwei
OracleMaxFees == {Absent, 20, 30, 100, 499, 500, 501, 800}      \* feeData.maxFeePerGas, in gwei
Conds == {"c1", "c2"}            \* the conditions of the wallet's positions

\* Prices, in cents.  Mids are the values a midpoint read can return (0: the
\* read failed, or no midpoint); SellPrices and MinCombineds are the
\* configured values of MM_SELL_PRICE and MM_ADAPTIVE_MIN_COMBINED of a run.
Mids == {0, 40, 60, 75}
SellPrices == {50, 60}
MinCombineds == {100, 120}

\* Collateral and share quantities are in tenths (of a USDC, of a share).
\* Amounts are the amounts splitPosition is called with; Allowances the
\* collateral allowances the wallet can have given the CTF contract before.
Amounts == {20, 30, 50, 100}
Allowances == {0, 60, MaxAllowance}
Legs == {"yes", "no"}

\* Token balances of a condition around the dust threshold, in units of
\* 0.0005 share: nothing, dust on one or both legs, a holding with or without
\* dust on the other leg.
HeldBalances ==
    {b \in [Legs -> {0, 1, 3}] : b["no"] # 3}

\* Midpoints the recovery buy samples, in cents, and the first and last
\* sample of a side (<<>>: fewer than two samples arrived): rising below the
\* threshold, rising to it, steady above it, falling above it.
SamplePrices == {40, 60, 75, 90}
SamplePairs == {<<>>, <<40, 60>>, <<60, 75>>, <<75, 75>>, <<90, 75>>}

\* Token balances of a condition a stopped run has left in the wallet, in
\* tenths of a share: below MIN_SHARES_PER_SIDE, at it, above it.
LeftoverBalances == [Legs -> {0, 20, 25, 50}]

\* TradeSizes are the configured values of MM_TRADE_SIZE of a run: 2.0, 2.5
\* and the default 5.
TradeSizes == {20, 25, 50}

\* RPC error classes thrown inside an attempt.  "transient" stands for RPC
\* timeout, server error, network error, connection refused and "header not
\* found"; "fatal" stands for execution reverted, insufficient funds,
\* unpredictable gas limit and nonce-already-used.  The code's catch block
\* never looks at the class: it is recorded only to state the claims.
ErrClasses == {"transient", "fatal"}

VARIABLES
    \* ---- wallet-tx serializer --------------------------------------------
    txQueue,        \* _txQueue: the call whose caught result is the tail (0: the initial resolved promise)
    gate,           \* gate[j]: the promise call j's `then` was chained on (value of _txQueue at enqueue)
    callState,      \* "new" | "queued" | "running" | "ok" | "failed": state of the promise execSafeCall returned
    attempt,        \* loop counter of _doExecSafeCall (0 before the loop starts)
    execPc,         \* position inside the attempt: "idle" | "nonce" | "submit" | "wait" | "backoff"
    nonceRead,      \* the nonce the current attempt read from safe.nonce() (-1: none)
    lastErr,        \* lastErr of _doExecSafeCall ("none" before the first failure)
    walletNonce,    \* the Safe's on-chain nonce
    pendingTx,      \* calls with a submitted transaction still in the mempool after its receipt wait failed
    executed,       \* executed[j]: how many times call j's target call was executed on-chain
    \* history (not read by any action guard)
    errSource,      \* errSource[j]: the call whose attempts produced the error j's caller received (0: none)
    unsettledAtRead, \* the earlier calls that were unresolved at one of j's nonce reads
    fatalAt,        \* the attempt at which call j first caught a fatal error (0: none)
    \* ---- dispatcher and position tasks -------------------------------------
    now,            \* Date.now(), in ticks
    activePositions,\* activePositions: the markets (condition ids) with a position in the map
    pendingByAsset, \* pendingByAsset: asset -> queued market (NoMarket: no entry)
    taskPc,         \* where the runStrategy/executeMMStrategy task of the market stands
    \* history (not read by any action guard)
    fate,           \* what the dispatcher did with the market on arrival and at the pop
    \* ---- adaptive cut-loss controller -------------------------------------
    dryRun,         \* config.dryRun
    mmSellPrice,    \* config.mmSellPrice
    mmAdaptiveMinCombined, \* config.mmAdaptiveMinCombined
    aPc,            \* where adaptiveLegCL stands ("idle": not called, "done": returned)
    filledLegPrice, \* filledLegPrice: fill price of the leg that filled
    msLeft,         \* msLeft read at the top of the current iteration, in ticks
    currentPrice,   \* currentPrice read in the current iteration
    activeOrderId,  \* "null" | "order": the controller's active limit
    activeLimitPrice, \* activeLimitPrice (0: none)
    wakeAt,         \* when the pending sleep(pollMs) ends
    status,         \* pos.status
    sFilled,        \* s.filled of the unfilled leg
    \* history (not read by any action guard)
    limitPrice,     \* price of the last limit SELL the controller posted (-1: none)
    limitLeft,      \* lifetime remaining when that limit was posted, in ticks
    limitMsLeft,    \* msLeft of the iteration that posted it
    exitBy,         \* "none" | "nobalance" | "filled" | "deadline": how the loop was left
    hadActiveAtDeadline, \* whether a limit was active when the deadline check fired
    deadlineCancels,     \* cancelOrder calls made by the deadline branch
    nMarketSells,   \* marketSell calls made by the controller
    \* ---- splitPosition (ctf.js) ---------------------------------------------
    splitPc,        \* where splitPosition stands ("idle": not called, "returned", "threw")
    amountUsdc,     \* amountUsdc of the current call
    splitShares,    \* the value the last call returned (0: none)
    allowance,      \* on-chain: collateral allowance of the wallet for the CTF contract
    isApprovedForAll, \* on-chain: the exchange is an approved operator of the wallet's tokens
    tokenBal,       \* on-chain: outcome-token balance of the wallet, per leg
    ctfLocked,      \* on-chain: collateral the CTF contract holds for the wallet's splits (out of the wallet's balance)
    walletLog,      \* the exec calls enqueued so far, in order (their kinds)
    \* history (not read by any action guard)
    callStart,      \* Len(walletLog) when the current splitPosition call started
    nSplits,        \* splitPosition calls made so far
    approvedAtSplit,\* whether both approvals were in place when the last split call was enqueued
    rejectedMin,    \* whether the current call was rejected by the minimum check
    allowanceAtCall,\* the allowance when the current call started
    operatorAtCall, \* isApprovedForAll when the current call started
    \* ---- one position, from startup to its end (mm.js, mmExecutor.js) -------
    mmTradeSize,    \* config.mmTradeSize, in tenths of a USDC
    mmAdaptiveCL,   \* config.mmAdaptiveCL
    mmRecoveryBuy,  \* config.mmRecoveryBuy
    pmPc,           \* where the process and its one position task stand
    pos,            \* the position object: status and, per leg, shares, entryPrice, orderId, filled, fillPrice
    venueOrder,     \* venue: state of the leg's initial limit SELL ("none" | "open" | "filled" | "cancelled")
    venueSize,      \* venue: size the leg's initial limit SELL was posted for (0: none)
    msRemaining,    \* msRemaining of the current monitor iteration, in ticks (0 outside the loop)
    pmWake,         \* when the pending sleep of the position task ends
    unfilledKey,    \* the leg the cut-loss works on ("none": no cut-loss of one leg)
    sellShares,     \* sellShares (mergeAmt) of the running cut-loss (0: not read yet)
    pmActive,       \* activeOrderId of adaptiveLegCL: "null" | "sim" | "order"
    venueCalls,     \* the kinds of write requests sent to the venue so far: "post", "cancel"
    redeemRuns,     \* runs of the periodic redeemer so far
    \* history (not read by any action guard)
    exitVia,        \* the branch that left the monitor loop ("none" while inside)
    qtySource,      \* per operation, where its quantity came from: pairs <<operation, "onchain" | "memory">>
    sellFailed,     \* sellFailed[k]: the last market SELL of leg k did not fill
    fillBy,         \* fillBy[k]: what detected leg k's fill ("none" | "venue" | "midpoint")
    cancelLog,      \* the logged cancelOrder calls: leg, order id, venue state before, client outcome, result
    \* ---- startup and the market detector (mm.js, mmDetector.js) -----------
    cleanupPc,      \* where cleanupOpenPositions stands: "idle" | "cancelling" | "merging" | "returned" | "threw"
    detStarted,     \* startMMDetector has been called
    seenKeys,       \* seenKeys: the <<asset, slot>> keys already scheduled
    pollSlot,       \* pollSlot[p]: `next` of poll p (0: the poll has not started)
    fetchPc,        \* fetchPc[p][a]: scheduleAsset(a, next) of poll p: "none" | "seen" | "fetching" | result of the fetch
    nextPollAt,     \* when the interval timer fires next
    \* history (not read by any action guard)
    pollStart,      \* pollStart[p]: the clock when poll p started
    cbLog,          \* the calls of the market callback: asset, slot and the poll that made the call
    \* ---- the periodic redeemer (ctf.js redeemMMPositions) -----------------
    rdDen,          \* on-chain: payoutDenominator of the condition (0: unresolved)
    rdBal,          \* on-chain: the wallet's balance of the condition's tokens, per leg
    rdPc,           \* rdPc[p]: where pass p stands: "idle" | "nolist" | "den" | "bal" | "exec" | "done"
    rdCond,         \* rdCond[p]: the condition pass p is at ("end": none)
    rdRead,         \* rdRead[p]: denominator and totalShares pass p read for that condition
    \* history (not read by any action guard)
    rdExamined,     \* rdExamined[p]: the conditions whose body pass p entered
    rdSkipped,      \* pairs <<pass, condition>> skipped as unresolved
    rdLog,          \* the redeemPositions calls: pass, condition, denominator and total as read
    \* ---- fees of a wallet transaction (ctf.js _doExecSafeCall) ------------
    feePc,          \* where the attempt stands: "sign" | "fees" | "submitted"
    feeData,        \* feeData: the answer of provider.getFeeData()
    txFees,         \* the overrides safe.execTransaction was called with
    \* ---- mergePositions and the split / merge round trip (ctf.js) ---------
    rtPc,           \* the round trip: "idle" | "split" | "merge"
    mergePc,        \* where mergePositions stands: "idle" | "wait" | "returned" | "threw"
    mergeShares,    \* sharesPerSide of the mergePositions call
    recoveredUsdc,  \* the value mergePositions returned (0: none)
    \* history (not read by any action guard)
    rtBefore,       \* token balances and locked collateral when the round trip's split was called
    \* ---- copy-trade BUY events of one market (executor.js executeBuy) ------
    ctPc,           \* ctPc[e]: where the handler of event e stands: "new" | "opts" | "size" | "order" | "done" | "skipped"
    ctExisting,     \* ctExisting[e]: existingPos.totalCost the handler read (Absent: no position)
    ctSize,         \* ctSize[e]: tradeSize of the handler
    ctStore,        \* positions.json: totalCost of the market's position (Absent: no entry)
    \* history (not read by any action guard)
    ctSpent,        \* USDC the buys of the market have spent
    \* ---- the merges of the startup cleanup (ctf.js cleanupOpenPositions) --
    clPc,           \* where the cleanup stands: "idle" | "den" | "bal" | "merge" | "done" | "threw"
    clCond,         \* the condition the loop over byCondition works on ("end": none)
    clDen,          \* on-chain: clDen[c]: payoutDenominator of condition c
    clBal,          \* on-chain: clBal[c][k]: the wallet's balance of c's token k (tenths of a share)
    clReadDen,      \* the denominator the loop body read
    \* history (not read by any action guard)
    clVisited,      \* the conditions whose loop body has run
    clFailed,       \* the conditions whose loop body ended in its catch
    clLog,          \* the merges submitted: condition, amount, and what the body had read
    \* ---- the recovery buy of the position (mmExecutor.js attemptRecoveryBuy)
    rbEntry,        \* entryPrice of the recovery position, in cents (0: none)
    rbWake,         \* the time `await sleep(30_000)` returns
    \* history (not read by any action guard)
    rbBuy,          \* the recovery BUY submitted to the venue and what had been read before it
    rbSell,         \* the follow-up SELL submitted to the venue and what had been read before it
    rbBuys,         \* recovery BUYs submitted for the position
    rbSells,        \* follow-up SELLs submitted for the position
    \* ---- the adaptive controller's orders on the venue (mmExecutor.js adaptiveLegCL)
    lmBook,         \* venue: the limit SELLs the controller has posted, in order: state and quantity left
    \* history (not read by any action guard)
    lmLast,         \* the last SELL the controller has submitted, with the balance and the live orders at submission
    \* ---- the loops of a position whose end time may not parse (mmExecutor.js monitorAndManage)
    etPc,           \* where the task stands: "top" | "check" | "sleep" | "adaptive" | "adaptiveSleep" | "cut" | "ended"
    etValid,        \* new Date(pos.endTime).getTime() is a number (FALSE: NaN)
    etLeft,         \* ticks from now to the market's end when etValid (0: at or after it)
    etFilled,       \* pos[k].filled
    etStatus        \* pos.status

execVars == <<txQueue, gate, callState, attempt, execPc, nonceRead, lastErr,
              walletNonce, pendingTx, executed, errSource, unsettledAtRead,
              fatalAt>>

dispVars == <<now, activePositions, pendingByAsset, taskPc, fate>>

cfgVars == <<dryRun, mmSellPrice, mmAdaptiveMinCombined>>

adVars == <<cfgVars, aPc, filledLegPrice, msLeft, currentPrice, activeOrderId,
            activeLimitPrice, wakeAt, status, sFilled, limitPrice, limitLeft,
            limitMsLeft, exitBy, hadActiveAtDeadline, deadlineCancels, nMarketSells>>

splitVars == <<splitPc, amountUsdc, splitShares, allowance, isApprovedForAll,
               tokenBal, ctfLocked, walletLog, callStart, nSplits, approvedAtSplit,
               rejectedMin, allowanceAtCall, operatorAtCall>>

posCfgVars == <<mmTradeSize, mmAdaptiveCL, mmRecoveryBuy>>

posVars == <<posCfgVars, pmPc, pos, venueOrder, venueSize, msRemaining, pmWake,
             unfilledKey, sellShares, pmActive, venueCalls,
             redeemRuns, exitVia, qtySource, sellFailed, fillBy, cancelLog>>

pmVars == <<splitVars, posVars>>

detVars == <<cleanupPc, detStarted, seenKeys, pollSlot, pollStart, fetchPc,
             nextPollAt, cbLog>>

rdVars == <<rdDen, rdBal, rdPc, rdCond, rdRead, rdExamined, rdSkipped, rdLog>>

feeVars == <<feePc, feeData, txFees>>

rtVars == <<rtPc, mergePc, mergeShares, recoveredUsdc, rtBefore>>

ctVars == <<ctPc, ctExisting, ctSize, ctStore, ctSpent>>

clVars == <<clPc, clCond, clDen, clBal, clReadDen, clVisited, clFailed, clLog>>

rbVars == <<rbEntry, rbWake, rbBuy, rbSell, rbBuys, rbSells>>

lmVars == <<lmBook, lmLast>>

etVars == <<etPc, etValid, etLeft, etFilled, etStatus>>

finalVars == <<clVars, rbVars, lmVars, etVars>>

lateVars == <<detVars, rdVars, feeVars, rtVars, ctVars, finalVars>>

vars == <<execVars, dispVars, adVars, pmVars, lateVars>>

(***************************************************************************)
(* Wallet-tx serializer                                                    *)
(***************************************************************************)

Settled(j) == callState[j] \in {"ok", "failed"}

\* State of the promise `result` of call i, as seen by a reaction chained on it.
ResultState(i) ==
    IF i = 0 THEN "ok"
    ELSE IF Settled(i) THEN callState[i] ELSE "pending"

\* Mutant: `_txQueue = result` (no catch): a rejection is passed on.
QueueLinkNoCatch(resultState) ==
    CASE resultState = "ok"      -> "fulfilled"
      [] resultState = "failed"  -> "rejected"
      [] OTHER                   -> "pending"

\* Mutant: no queue at all, every call starts at once.
QueueLinkNoWait(resultState) == "fulfilled"

\* `_txQueue = result.catch(() => {})`: the state of the tail promise given
\* the state of `result`.  The empty catch handler turns a rejection into a
\* fulfilment.
QueueLink(resultState) ==
    CASE resultState = "ok"      -> "fulfilled"
      [] resultState = "failed"  -> "fulfilled"
      [] OTHER                   -> "pending"

\* Mutant: the loop bound is off by one.
HasNextAttemptOffByOne(a) == a <= MAX_RETRIES

\* `if (attempt < MAX_RETRIES)` in the catch block, which is also whether
\* the for loop (attempt <= MAX_RETRIES after attempt++) runs again.
HasNextAttempt(a) == a < MAX_RETRIES

ExecInit ==
    /\ txQueue = 0
    /\ gate = [j \in Calls |-> 0]
    /\ callState = [j \in Calls |-> "new"]
    /\ attempt = [j \in Calls |-> 0]
    /\ execPc = [j \in Calls |-> "idle"]
    /\ nonceRead = [j \in Calls |-> -1]
    /\ lastErr = [j \in Calls |-> "none"]
    /\ walletNonce = 0
    /\ pendingTx = {}
    /\ executed = [j \in Calls |-> 0]
    /\ errSource = [j \in Calls |-> 0]
    /\ unsettledAtRead = [j \in Calls |-> {}]
    /\ fatalAt = [j \in Calls |-> 0]

\* execSafeCall(to, data): chain the call on the tail and make its caught
\* result the new tail.  Calls are numbered in the order they are enqueued.
EnqueueCall(j) ==
    /\ UNCHANGED <<dispVars, adVars, pmVars, lateVars>>
    /\ callState[j] = "new"
    /\ \A i \in Calls : i < j => callState[i] # "new"
    /\ callState' = [callState EXCEPT ![j] = "queued"]
    /\ gate' = [gate EXCEPT ![j] = txQueue]
    /\ txQueue' = j
    /\ UNCHANGED <<attempt, execPc, nonceRead, lastErr, walletNonce, pendingTx,
                   executed, errSource, unsettledAtRead, fatalAt>>

\* The reaction `_txQueue.then(() => _doExecSafeCall(...))` of call j: runs
\* once the gate settles.  Fulfilled: _doExecSafeCall starts (attempt = 1).
\* Rejected: `then` has no rejection handler, so the result is rejected with
\* the gate's error without _doExecSafeCall being called.
StartCall(j) ==
    /\ UNCHANGED <<dispVars, adVars, pmVars, lateVars>>
    /\ callState[j] = "queued"
    /\ QueueLink(ResultState(gate[j])) # "pending"
    /\ IF QueueLink(ResultState(gate[j])) = "fulfilled"
       THEN /\ callState' = [callState EXCEPT ![j] = "running"]
            /\ attempt' = [attempt EXCEPT ![j] = 1]
            /\ execPc' = [execPc EXCEPT ![j] = "nonce"]
            /\ UNCHANGED errSource
       ELSE /\ callState' = [callState EXCEPT ![j] = "failed"]
            /\ errSource' = [errSource EXCEPT ![j] = errSource[gate[j]]]
            /\ UNCHANGED <<attempt, execPc>>
    /\ UNCHANGED <<txQueue, gate, nonceRead, lastErr, walletNonce, pendingTx,
                   executed, unsettledAtRead, fatalAt>>

\* The catch block of the attempt loop, for an error of class e: remember
\* the error; sleep and go round again if attempts remain, otherwise fall
\* out of the loop and throw.
ExecCatch(j, e) ==
    /\ lastErr' = [lastErr EXCEPT ![j] = e]
    /\ nonceRead' = [nonceRead EXCEPT ![j] = -1]
    /\ fatalAt' = [fatalAt EXCEPT ![j] =
                      IF e = "fatal" /\ fatalAt[j] = 0 THEN attempt[j] ELSE @]
    /\ IF HasNextAttempt(attempt[j])
       THEN /\ execPc' = [execPc EXCEPT ![j] = "backoff"]
            /\ UNCHANGED <<callState, errSource>>
       ELSE /\ execPc' = [execPc EXCEPT ![j] = "idle"]
            /\ callState' = [callState EXCEPT ![j] = "failed"]
            /\ errSource' = [errSource EXCEPT ![j] = j]

\* `await safe.nonce()` (with the provider lookup before it).
ExecReadNonce(j) ==
    /\ UNCHANGED <<dispVars, adVars, pmVars, lateVars>>
    /\ callState[j] = "running" /\ execPc[j] = "nonce"
    /\ \/ /\ nonceRead' = [nonceRead EXCEPT ![j] = walletNonce]
          /\ execPc' = [execPc EXCEPT ![j] = "submit"]
          /\ unsettledAtRead' =
                [unsettledAtRead EXCEPT ![j] =
                    @ \cup {i \in Calls : i < j /\ ~Settled(i)}]
          /\ UNCHANGED <<callState, lastErr, errSource, fatalAt>>
       \/ /\ \E e \in ErrClasses : ExecCatch(j, e)
          /\ UNCHANGED unsettledAtRead
    /\ UNCHANGED <<txQueue, gate, attempt, walletNonce, pendingTx, executed>>

\* getTransactionHash, signDigest, getFeeData and `await safe.execTransaction`:
\* the transaction is handed to the node, or one of the calls throws.
ExecSubmit(j) ==
    /\ UNCHANGED <<dispVars, adVars, pmVars, lateVars>>
    /\ callState[j] = "running" /\ execPc[j] = "submit"
    /\ \/ /\ execPc' = [execPc EXCEPT ![j] = "wait"]
          /\ UNCHANGED <<callState, lastErr, errSource, fatalAt, nonceRead>>
       \/ \E e \in ErrClasses : ExecCatch(j, e)
    /\ UNCHANGED <<txQueue, gate, attempt, walletNonce, pendingTx,
                   executed, unsettledAtRead>>

\* `await tx.wait()`: the receipt arrives (the Safe accepted the signed
\* nonce, which it does only for its current nonce), or the wait throws.  A
\* transient failure leaves the transaction in the mempool; a revert does not.
\* A mempool transaction signed for a nonce the Safe has passed can only
\* revert, so it is dropped as soon as the nonce moves on.
ExecWait(j) ==
    /\ UNCHANGED <<dispVars, adVars, pmVars, lateVars>>
    /\ callState[j] = "running" /\ execPc[j] = "wait"
    /\ \/ /\ nonceRead[j] = walletNonce
          /\ walletNonce' = walletNonce + 1
          /\ executed' = [executed EXCEPT ![j] = @ + 1]
          /\ callState' = [callState EXCEPT ![j] = "ok"]
          /\ execPc' = [execPc EXCEPT ![j] = "idle"]
          /\ pendingTx' = {}
          /\ nonceRead' = [nonceRead EXCEPT ![j] = -1]
          /\ UNCHANGED <<lastErr, errSource, fatalAt>>
       \/ /\ ExecCatch(j, "fatal")
          /\ UNCHANGED <<walletNonce, executed, pendingTx>>
       \/ /\ ExecCatch(j, "transient")
          /\ pendingTx' = IF nonceRead[j] = walletNonce
                          THEN pendingTx \cup {j} ELSE pendingTx
          /\ UNCHANGED <<walletNonce, executed>>
    /\ UNCHANGED <<txQueue, gate, attempt, unsettledAtRead>>

\* `await sleep(RETRY_DELAY)` ends and the for loop starts the next attempt.
ExecBackoff(j) ==
    /\ UNCHANGED <<dispVars, adVars, pmVars, lateVars>>
    /\ callState[j] = "running" /\ execPc[j] = "backoff"
    /\ attempt' = [attempt EXCEPT ![j] = @ + 1]
    /\ execPc' = [execPc EXCEPT ![j] = "nonce"]
    /\ UNCHANGED <<txQueue, gate, callState, nonceRead, lastErr, walletNonce,
                   pendingTx, executed, errSource, unsettledAtRead,
                   fatalAt>>

\* The chain includes a transaction left in the mempool by call j (all of
\* them carry the Safe's current nonce): the target call executes once more
\* and the nonce moves on.
ChainMine(j) ==
    /\ UNCHANGED <<dispVars, adVars, pmVars, lateVars>>
    /\ j \in pendingTx
    /\ pendingTx' = {}
    /\ walletNonce' = walletNonce + 1
    /\ executed' = [executed EXCEPT ![j] = @ + 1]
    /\ UNCHANGED <<txQueue, gate, callState, attempt, execPc, nonceRead,
                   lastErr, errSource, unsettledAtRead, fatalAt>>

ExecStep ==
    \E j \in Calls :
        StartCall(j) \/ ExecReadNonce(j) \/ ExecSubmit(j) \/ ExecWait(j) \/ ExecBackoff(j)

ExecNext ==
    \/ \E j \in Calls : EnqueueCall(j)
    \/ ExecStep
    \/ \E j \in Calls : ChainMine(j)

(***************************************************************************)
(* Dispatcher (mm.js) and position task (mmExecutor.js executeMMStrategy)  *)
(***************************************************************************)

\* The markets of a run, as the detector builds them (extractMarketData).
\* Markets 2, 5, 8, ... are eth markets, the others btc markets.  The k-th
\* market of an asset is the market of slot k: it opens at k * SlotTicks and
\* ends one slot later (market.endTime).
MarketAsset(m) == IF m % 3 = 2 THEN "eth" ELSE "btc"
MarketSlot(m) == Cardinality({i \in 1..m : MarketAsset(i) = MarketAsset(m)})
MarketOpen(m) == MarketSlot(m) * SlotTicks
MarketEnd(m) == MarketOpen(m) + SlotTicks

\* scheduleAsset emits the market of the slot after the current one (poll:
\* nextSlot()), and, when the metadata fetch returns late, still up to the
\* freshness window after the slot opened (elapsedSec > 15 is dropped).
InEmitWindow(m) ==
    /\ MarketOpen(m) - SlotTicks <= now
    /\ now <= MarketOpen(m) + FreshTicks

Emitted(m) == fate[m] # "none"

\* pos.status of the market's position, from where its task stands.  The
\* position object exists from the end of entry on.
PosStatus(m) ==
    CASE taskPc[m] = "monitor" -> "monitoring"
      [] taskPc[m] \in {"cut", "error"} -> "cutting"
      [] taskPc[m] = "done" -> "done"
      [] taskPc[m] = "expired" -> "expired"
      [] OTHER -> "none"

\* The task of the market has been started and has not ended.
TaskLive(m) == taskPc[m] \in {"balance", "split", "sells", "monitor", "cut"}

\* executeMMStrategy has returned or thrown: "done" / "expired" (normal
\* return with that status), "early" (return on insufficient balance or
\* failed split, or a throw of the balance read), "error" (a throw out of
\* monitorAndManage).
TaskEnded(m) == taskPc[m] \in {"done", "expired", "early", "error"}

DispInit ==
    /\ now = 0
    /\ activePositions = {}
    /\ pendingByAsset = [a \in Assets |-> NoMarket]
    /\ taskPc = [m \in Markets |-> "idle"]
    /\ fate = [m \in Markets |-> "none"]

\* Math.round(ms / 1000) for a duration given in ticks: floor(x + 0.5).
RoundSecs(ticks) == (2 * ticks + TicksPerSec) \div (2 * TicksPerSec)

\* handleNewMarket: getActiveMMPositions().some((p) => p.asset === market.asset)
IsAssetBusy(a) ==
    \E m \in activePositions : MarketAsset(m) = a

\* Mutant: first writer wins, an existing entry is kept.
QueueMarketKeepFirst(pending, a, m) ==
    IF pending[a] # NoMarket THEN pending ELSE [pending EXCEPT ![a] = m]

\* pendingByAsset.set(market.asset, market)
QueueMarket(pending, a, m) == [pending EXCEPT ![a] = m]

\* runStrategy: secsLeft = Math.round((endMs - Date.now()) / 1000);
\*              secsLeft > config.mmCutLossTime
QueuedStillValid(left) == RoundSecs(left) > mmCutLossTime

\* Time passes.
Tick ==
    /\ now < MaxNow
    /\ now' = now + 1
    /\ UNCHANGED <<activePositions, pendingByAsset, taskPc, fate>>
    /\ UNCHANGED <<execVars, adVars, pmVars, lateVars>>

\* The detector calls handleNewMarket(market) with a market it has not
\* emitted before (seenKeys), while the market's slot is the next one (or
\* just opened).  Busy asset: the market replaces the pending entry.  Otherwise
\* runStrategy(market) starts and runs executeMMStrategy up to its first
\* await (the collateral balance read).
HandleNewMarket(m) ==
    LET a == MarketAsset(m) IN
    /\ ~Emitted(m)
    /\ InEmitWindow(m)
    /\ IF IsAssetBusy(a)
       THEN /\ pendingByAsset' = QueueMarket(pendingByAsset, a, m)
            /\ fate' = [x \in Markets |->
                          IF x = m THEN "pending"
                          ELSE IF x = pendingByAsset[a] THEN "replaced"
                          ELSE fate[x]]
            /\ UNCHANGED taskPc
       ELSE /\ taskPc' = [taskPc EXCEPT ![m] = "balance"]
            /\ fate' = [fate EXCEPT ![m] = "direct"]
            /\ UNCHANGED pendingByAsset
    /\ UNCHANGED <<now, activePositions>>
    /\ UNCHANGED <<execVars, adVars, pmVars, lateVars>>

\* The rest of runStrategy(market) once executeMMStrategy has returned or
\* thrown (the throw is caught and logged): take the asset's queued market,
\* start it if it is still valid, discard it otherwise.  `how` is the way
\* executeMMStrategy ended.
AfterStrategy(m, how) ==
    LET a == MarketAsset(m)
        queued == pendingByAsset[a]
    IN  IF queued # NoMarket
        THEN /\ pendingByAsset' = [pendingByAsset EXCEPT ![a] = NoMarket]
             /\ IF QueuedStillValid(MarketEnd(queued) - now)
                THEN /\ taskPc' = [taskPc EXCEPT ![m] = how, ![queued] = "balance"]
                     /\ fate' = [fate EXCEPT ![queued] = "popStarted"]
                ELSE /\ taskPc' = [taskPc EXCEPT ![m] = how]
                     /\ fate' = [fate EXCEPT ![queued] = "popDiscarded"]
        ELSE /\ taskPc' = [taskPc EXCEPT ![m] = how]
             /\ UNCHANGED <<pendingByAsset, fate>>

\* executeMMStrategy, balance check: `await getUsdcBalance()` returns enough
\* collateral, or returns too little (early return) or throws.
TaskBalance(m) ==
    /\ taskPc[m] = "balance"
    /\ \/ /\ taskPc' = [taskPc EXCEPT ![m] = "split"]
          /\ UNCHANGED <<pendingByAsset, fate>>
       \/ AfterStrategy(m, "early")
    /\ UNCHANGED <<now, activePositions>>
    /\ UNCHANGED <<execVars, adVars, pmVars, lateVars>>

\* executeMMStrategy, `await splitPosition(...)`: the split went through, or
\* it threw and the catch block returns.
TaskSplit(m) ==
    /\ taskPc[m] = "split"
    /\ \/ /\ taskPc' = [taskPc EXCEPT ![m] = "sells"]
          /\ UNCHANGED <<pendingByAsset, fate>>
       \/ AfterStrategy(m, "early")
    /\ UNCHANGED <<now, activePositions>>
    /\ UNCHANGED <<execVars, adVars, pmVars, lateVars>>

\* executeMMStrategy, both placeLimitSell calls (they never throw), then the
\* position object is built with status 'monitoring' and put in the map:
\* activePositions.set(conditionId, pos).
TaskSells(m) ==
    /\ taskPc[m] = "sells"
    /\ taskPc' = [taskPc EXCEPT ![m] = "monitor"]
    /\ activePositions' = activePositions \cup {m}
    /\ UNCHANGED <<now, pendingByAsset, fate>>
    /\ UNCHANGED <<execVars, adVars, pmVars, lateVars>>

\* executeMMStrategy after `await monitorAndManage(pos)` returned with
\* pos.status = how: activePositions.delete(conditionId), then the rest
\* of runStrategy.
TaskReturn(m, how) ==
    /\ activePositions' = activePositions \ {m}
    /\ AfterStrategy(m, how)

\* One iteration of the monitorAndManage loop.  Expired: status 'expired'.
\* Both legs found filled, or the one-leg paths (adaptiveLegCL,
\* cutLossOneLegFilled, none of which throws) ran to their end: status
\* 'done'.  Cut-loss time with the neither-filled branch: status 'cutting'
\* and cutLossNeitherFilled starts.  Otherwise sleep and loop.
TaskMonitor(m) ==
    /\ taskPc[m] = "monitor"
    /\ IF MarketEnd(m) - now <= 0
       THEN TaskReturn(m, "expired")
       ELSE \/ TaskReturn(m, "done")
            \/ /\ MarketEnd(m) - now <= mmCutLossTime * TicksPerSec
               /\ taskPc' = [taskPc EXCEPT ![m] = "cut"]
               /\ UNCHANGED <<activePositions, pendingByAsset, fate>>
    /\ UNCHANGED now
    /\ UNCHANGED <<execVars, adVars, pmVars, lateVars>>

\* cutLossNeitherFilled: cancel both orders, read the balances, then either
\* the merge (or nothing to merge) completes, the position is marked 'done'
\* and executeMMStrategy returns; or `await mergePositions(...)` (or the
\* balance read of the recovery buy) throws: the error leaves
\* monitorAndManage and executeMMStrategy before activePositions.delete and
\* is caught by runStrategy.
TaskCut(m) ==
    /\ taskPc[m] = "cut"
    /\ \/ TaskReturn(m, "done")
       \/ /\ AfterStrategy(m, "error")
          /\ UNCHANGED activePositions
    /\ UNCHANGED now
    /\ UNCHANGED <<execVars, adVars, pmVars, lateVars>>

DispNext ==
    \/ Tick
    \/ \E m \in Markets : HandleNewMarket(m)
    \/ \E m \in Markets : TaskBalance(m)
    \/ \E m \in Markets : TaskSplit(m)
    \/ \E m \in Markets : TaskSells(m)
    \/ \E m \in Markets : TaskMonitor(m)
    \/ \E m \in Markets : TaskCut(m)

(***************************************************************************)
(* Adaptive cut-loss controller (mmExecutor.js adaptiveLegCL)              *)
(***************************************************************************)

\* pos.endTime of the position the controller works on: the first market.
AdEnd == MarketEnd(1)

\* Math.max(0, config.mmAdaptiveMinCombined - filledLegPrice)
MinAdaptivePrice == 
    IF mmAdaptiveMinCombined - filledLegPrice > 0
    THEN mmAdaptiveMinCombined - filledLegPrice
    ELSE 0

\* Math.min(currentPrice, config.mmSellPrice)
TargetPrice(cur) == IF cur < mmSellPrice THEN cur ELSE mmSellPrice

\* currentPrice < minAdaptivePrice
BelowFloor(cur) == cur < MinAdaptivePrice

\* Mutant: a limit is never raised.
PriceImprovedNever(cur) == FALSE

\* currentPrice < activeLimitPrice * 0.95
DroppedHard(cur) == cur * 100 < activeLimitPrice * 95

\* targetPrice > activeLimitPrice * 1.02
PriceImproved(cur) == TargetPrice(cur) * 100 > activeLimitPrice * 102

\* Mutant: the loop is left only when the market has expired.
DeadlineReachedAtExpiry(left) == left <= 0

\* msLeft <= config.mmCutLossTime * 1000
DeadlineReached(left) == left <= mmCutLossTime * TicksPerSec

AdInit ==
    /\ dryRun \in BOOLEAN
    /\ mmSellPrice \in SellPrices
    /\ mmAdaptiveMinCombined \in MinCombineds
    /\ aPc = "idle"
    /\ filledLegPrice = 0
    /\ msLeft = 0
    /\ currentPrice = 0
    /\ activeOrderId = "null"
    /\ activeLimitPrice = 0
    /\ wakeAt = 0
    /\ status = "monitoring"
    /\ sFilled = FALSE
    /\ limitPrice = -1
    /\ limitLeft = 0
    /\ limitMsLeft = 0
    /\ exitBy = "none"
    /\ hadActiveAtDeadline = FALSE
    /\ deadlineCancels = 0
    /\ nMarketSells = 0

\* What no controller action changes.
AdFrame == UNCHANGED <<execVars, now, activePositions, pendingByAsset, taskPc, fate, cfgVars, pmVars, lateVars>>

\* The controller returns with the leg closed: s.filled = true, pos.status = 'done'.
AdReturn(how) ==
    /\ aPc' = "done"
    /\ exitBy' = how
    /\ sFilled' = TRUE
    /\ status' = "done"

\* `await sleep(pollMs)` starts.
AdSleep ==
    /\ aPc' = "sleep"
    /\ wakeAt' = now + PollTicks

\* The code between the cancel of an active limit (or the decision to keep
\* none) and the next await: with no active limit and the midpoint at or
\* above the floor placeLimitSell is called, otherwise the iteration sleeps.
AdPlaceOrSleep(cur) ==
    IF cur >= MinAdaptivePrice
    THEN aPc' = "place" /\ UNCHANGED wakeAt
    ELSE AdSleep

\* monitorAndManage finds exactly one leg filled before the market's end and
\* calls adaptiveLegCL.  The filled leg's price is config.mmSellPrice in live
\* mode and the midpoint that hit the target in a dry run.  adaptiveLegCL
\* computes the floor and awaits the cancel of the leg's initial order.
AdaptiveStart ==
    /\ aPc = "idle"
    /\ now < AdEnd
    /\ \E p \in Mids :
          /\ IF dryRun THEN p >= mmSellPrice ELSE p = mmSellPrice
          /\ filledLegPrice' = p
    /\ aPc' = "cancelOld"
    /\ UNCHANGED <<msLeft, currentPrice, activeOrderId, activeLimitPrice, wakeAt,
                   status, sFilled, limitPrice, limitLeft, limitMsLeft, exitBy,
                   hadActiveAtDeadline, deadlineCancels, nMarketSells>>
    /\ AdFrame

\* `await cancelOrder(s.orderId)` returns (true or false, the result is not
\* read); s.orderId = null; the balance read starts.
AdCancelOld ==
    /\ aPc = "cancelOld"
    /\ aPc' = "balance"
    /\ UNCHANGED <<filledLegPrice, msLeft, currentPrice, activeOrderId, activeLimitPrice,
                   wakeAt, status, sFilled, limitPrice, limitLeft, limitMsLeft, exitBy,
                   hadActiveAtDeadline, deadlineCancels, nMarketSells>>
    /\ AdFrame

\* `await getTokenBalance(s.tokenId)` returns: fewer than 0.001 shares (the
\* leg is marked filled and the position done), or something to sell, and the
\* loop starts.
AdBalance ==
    /\ aPc = "balance"
    /\ \/ /\ AdReturn("nobalance")
       \/ /\ aPc' = "top"
          /\ UNCHANGED <<exitBy, sFilled, status>>
    /\ UNCHANGED <<filledLegPrice, msLeft, currentPrice, activeOrderId, activeLimitPrice,
                   wakeAt, limitPrice, limitLeft, limitMsLeft,
                   hadActiveAtDeadline, deadlineCancels, nMarketSells>>
    /\ AdFrame

\* Top of the loop (first entry, or the sleep timer has fired): msLeft is
\* read.  Deadline: the active limit's cancel is awaited, or with no active
\* limit the loop is left and marketSell is called.  Otherwise the fill check
\* of the active limit, or with no active limit the midpoint read, starts.
AdLoopTop ==
    /\ \/ aPc = "top"
       \/ aPc = "sleep" /\ now >= wakeAt
    /\ msLeft' = AdEnd - now
    /\ IF DeadlineReached(AdEnd - now)
       THEN /\ exitBy' = "deadline"
            /\ hadActiveAtDeadline' = (activeOrderId # "null")
            /\ aPc' = IF activeOrderId # "null" THEN "deadlineCancel" ELSE "marketSell"
       ELSE /\ aPc' = IF activeOrderId # "null" THEN "fillCheck" ELSE "mid"
            /\ UNCHANGED <<exitBy, hadActiveAtDeadline>>
    /\ UNCHANGED <<filledLegPrice, currentPrice, activeOrderId, activeLimitPrice, wakeAt,
                   status, sFilled, limitPrice, limitLeft, limitMsLeft,
                   deadlineCancels, nMarketSells>>
    /\ AdFrame

\* Deadline branch: `await cancelOrder(activeOrderId)` returns;
\* activeOrderId = null; break; marketSell is called.
AdDeadlineCancel ==
    /\ aPc = "deadlineCancel"
    /\ activeOrderId' = "null"
    /\ deadlineCancels' = deadlineCancels + 1
    /\ aPc' = "marketSell"
    /\ UNCHANGED <<filledLegPrice, msLeft, currentPrice, activeLimitPrice, wakeAt,
                   status, sFilled, limitPrice, limitLeft, limitMsLeft, exitBy,
                   hadActiveAtDeadline, nMarketSells>>
    /\ AdFrame

\* The fill check of the active limit returns.  Dry run: simPriceHitTarget
\* reads a midpoint p and reports a fill iff p >= config.mmSellPrice.  Live:
\* isOrderFilled answers as the venue does (false on an error).  Filled: the
\* controller returns.  Not filled: the midpoint read starts.
AdFillCheck ==
    /\ aPc = "fillCheck"
    /\ \E p \in Mids, venueFilled \in BOOLEAN :
          LET filled == IF dryRun THEN p >= mmSellPrice ELSE venueFilled
          IN  IF filled
              THEN AdReturn("filled")
              ELSE /\ aPc' = "mid"
                   /\ UNCHANGED <<exitBy, sFilled, status>>
    /\ UNCHANGED <<filledLegPrice, msLeft, currentPrice, activeOrderId, activeLimitPrice,
                   wakeAt, limitPrice, limitLeft, limitMsLeft,
                   hadActiveAtDeadline, deadlineCancels, nMarketSells>>
    /\ AdFrame

\* `await getMidprice(s.tokenId)` returns p (0 on an error).  p <= 0: sleep.
\* An active limit is cancelled when the midpoint is below the floor, dropped
\* hard or improved (the cancel is awaited); with no active limit the code
\* goes on to the posting decision; an active limit that is kept sleeps.
AdReadMid ==
    /\ aPc = "mid"
    /\ \E p \in Mids :
          /\ currentPrice' = p
          /\ IF p <= 0
             THEN AdSleep
             ELSE IF activeOrderId # "null"
                  THEN IF BelowFloor(p) \/ DroppedHard(p) \/ PriceImproved(p)
                       THEN aPc' = "adjust" /\ UNCHANGED wakeAt
                       ELSE AdSleep
                  ELSE AdPlaceOrSleep(p)
    /\ UNCHANGED <<filledLegPrice, msLeft, activeOrderId, activeLimitPrice,
                   status, sFilled, limitPrice, limitLeft, limitMsLeft, exitBy,
                   hadActiveAtDeadline, deadlineCancels, nMarketSells>>
    /\ AdFrame

\* The cancel of the active limit returns: activeOrderId = null,
\* activeLimitPrice = 0, then the posting decision.
AdAdjust ==
    /\ aPc = "adjust"
    /\ activeOrderId' = "null"
    /\ activeLimitPrice' = 0
    /\ AdPlaceOrSleep(currentPrice)
    /\ UNCHANGED <<filledLegPrice, msLeft, currentPrice,
                   status, sFilled, limitPrice, limitLeft, limitMsLeft, exitBy,
                   hadActiveAtDeadline, deadlineCancels, nMarketSells>>
    /\ AdFrame

\* `await placeLimitSell(s.tokenId, sellShares, targetPrice, ...)` returns.
\* Success (always, in a dry run): the limit SELL at targetPrice is posted and
\* becomes the active limit.  Failure: nothing changes.  Then sleep.
AdPlace ==
    /\ aPc = "place"
    /\ \E success \in BOOLEAN :
          /\ dryRun => success
          /\ IF success
             THEN /\ activeOrderId' = "order"
                  /\ activeLimitPrice' = TargetPrice(currentPrice)
                  /\ limitPrice' = TargetPrice(currentPrice)
                  /\ limitLeft' = AdEnd - now
                  /\ limitMsLeft' = msLeft
             ELSE UNCHANGED <<activeOrderId, activeLimitPrice, limitPrice, limitLeft,
                              limitMsLeft>>
    /\ AdSleep
    /\ UNCHANGED <<filledLegPrice, msLeft, currentPrice, status, sFilled, exitBy,
                   hadActiveAtDeadline, deadlineCancels, nMarketSells>>
    /\ AdFrame

\* `await marketSell(s.tokenId, sellShares, ...)` returns (success or not):
\* s.fillPrice = result.fillPrice, s.filled = true, pos.status = 'done'.
AdMarketSell ==
    /\ aPc = "marketSell"
    /\ nMarketSells' = nMarketSells + 1
    /\ AdReturn(exitBy)
    /\ UNCHANGED <<filledLegPrice, msLeft, currentPrice, activeOrderId, activeLimitPrice,
                   wakeAt, limitPrice, limitLeft, limitMsLeft,
                   hadActiveAtDeadline, deadlineCancels>>
    /\ AdFrame

\* The steps of the controller once it has been called.
AdStep ==
    \/ AdCancelOld
    \/ AdBalance
    \/ AdLoopTop
    \/ AdDeadlineCancel
    \/ AdFillCheck
    \/ AdReadMid
    \/ AdAdjust
    \/ AdPlace
    \/ AdMarketSell

AdNext ==
    \/ Tick
    \/ AdaptiveStart
    \/ AdStep

(***************************************************************************)
(* splitPosition with its approvals (ctf.js)                               *)
(***************************************************************************)

\* What no action of splitPosition changes.
SplitFrame == UNCHANGED <<execVars, dispVars, adVars, posVars, lateVars>>

\* What no step of a running splitPosition call changes.
SplitHistFrame ==
    /\ UNCHANGED <<rejectedMin, allowanceAtCall, operatorAtCall>>
    /\ SplitFrame

\* shares = amountUsdc; if (shares < MIN_SHARES_PER_SIDE) throw
BelowMinimum(amount) == amount < MIN_SHARES_PER_SIDE

\* Mutant: approve whatever the allowance is.
AllowanceEnoughNever(allow, amount) == FALSE

\* ensureUsdcApproval: if (allowance.gte(amountWei)) return
AllowanceEnough(allow, amount) == allow >= amount

\* The exec calls the current splitPosition call has enqueued.
CallsOfSplit == SubSeq(walletLog, callStart + 1, Len(walletLog))

\* The on-chain state of the wallet before the run; splitPosition not called.
SplitInit ==
    /\ splitPc = "idle"
    /\ amountUsdc = 0
    /\ splitShares = 0
    /\ allowance \in Allowances
    /\ isApprovedForAll \in BOOLEAN
    /\ tokenBal = [k \in Legs |-> 0]
    /\ ctfLocked = 0
    /\ walletLog = <<>>
    /\ callStart = 0
    /\ nSplits = 0
    /\ approvedAtSplit = FALSE
    /\ rejectedMin = FALSE
    /\ allowanceAtCall = 0
    /\ operatorAtCall = FALSE

\* The call splitPosition(conditionId, amount, negRisk) up to its first await:
\* the minimum check throws, a dry run returns `shares` at once, otherwise the
\* allowance read of ensureUsdcApproval starts.
SplitCall(amount) ==
    /\ splitPc' = IF BelowMinimum(amount) THEN "threw"
                  ELSE IF dryRun THEN "returned"
                  ELSE "usdcApproval"
    /\ amountUsdc' = amount
    /\ splitShares' = IF ~BelowMinimum(amount) /\ dryRun THEN amount ELSE 0
    /\ callStart' = Len(walletLog)
    /\ nSplits' = nSplits + 1
    /\ approvedAtSplit' = FALSE
    /\ rejectedMin' = BelowMinimum(amount)
    /\ allowanceAtCall' = allowance
    /\ operatorAtCall' = isApprovedForAll
    /\ UNCHANGED <<allowance, isApprovedForAll, tokenBal, ctfLocked, walletLog>>

\* A caller outside the position task calls splitPosition with some amount.
CallSplit ==
    /\ splitPc \in {"idle", "returned", "threw"}
    /\ nSplits < MaxSplits
    /\ \E amount \in Amounts : SplitCall(amount)
    /\ SplitFrame

\* ensureUsdcApproval: the allowance read returns (or the read throws).
\* Enough: return, and the operator read of ensureExchangeApproval starts.
\* Not enough: execSafeCall(approve(CTF, MaxUint256)) is enqueued and awaited.
EnsureUsdcApproval ==
    /\ splitPc = "usdcApproval"
    /\ \/ /\ AllowanceEnough(allowance, amountUsdc)
          /\ splitPc' = "exchangeApproval"
          /\ UNCHANGED walletLog
       \/ /\ ~AllowanceEnough(allowance, amountUsdc)
          /\ walletLog' = Append(walletLog, "approve")
          /\ splitPc' = "approveWait"
       \/ /\ splitPc' = "threw"
          /\ UNCHANGED walletLog
    /\ UNCHANGED <<amountUsdc, splitShares, allowance, isApprovedForAll, tokenBal, ctfLocked,
                   callStart, nSplits, approvedAtSplit>>
    /\ SplitHistFrame

\* The approve exec call resolves (the allowance is set on-chain) or fails
\* terminally (splitPosition throws).
UsdcApprovalDone ==
    /\ splitPc = "approveWait"
    /\ \/ /\ allowance' = MaxAllowance
          /\ splitPc' = "exchangeApproval"
       \/ /\ splitPc' = "threw"
          /\ UNCHANGED allowance
    /\ UNCHANGED <<amountUsdc, splitShares, isApprovedForAll, tokenBal, ctfLocked,
                   walletLog,
                   callStart, nSplits, approvedAtSplit>>
    /\ SplitHistFrame

\* The split call itself: execSafeCall(splitPosition(..., amountWei)) is enqueued.
EnqueueSplit ==
    /\ walletLog' = Append(walletLog, "split")
    /\ approvedAtSplit' = (AllowanceEnough(allowance', amountUsdc) /\ isApprovedForAll')
    /\ splitPc' = "splitWait"

\* ensureExchangeApproval: the isApprovedForAll read returns (or throws).
\* Approved: return, and the split call is enqueued.  Not approved:
\* execSafeCall(setApprovalForAll(exchange, true)) is enqueued and awaited.
EnsureExchangeApproval ==
    /\ splitPc = "exchangeApproval"
    /\ \/ /\ isApprovedForAll
          /\ UNCHANGED <<allowance, isApprovedForAll>>
          /\ EnqueueSplit
       \/ /\ ~isApprovedForAll
          /\ walletLog' = Append(walletLog, "setApprovalForAll")
          /\ splitPc' = "operatorWait"
          /\ UNCHANGED <<allowance, isApprovedForAll, approvedAtSplit>>
       \/ /\ splitPc' = "threw"
          /\ UNCHANGED <<allowance, isApprovedForAll, walletLog, approvedAtSplit>>
    /\ UNCHANGED <<amountUsdc, splitShares, tokenBal, ctfLocked, callStart, nSplits>>
    /\ SplitHistFrame

\* The setApprovalForAll exec call resolves (the split call is enqueued next)
\* or fails terminally.
ExchangeApprovalDone ==
    /\ splitPc = "operatorWait"
    /\ \/ /\ isApprovedForAll' = TRUE
          /\ UNCHANGED allowance
          /\ EnqueueSplit
       \/ /\ splitPc' = "threw"
          /\ UNCHANGED <<allowance, isApprovedForAll, walletLog, approvedAtSplit>>
    /\ UNCHANGED <<amountUsdc, splitShares, tokenBal, ctfLocked, callStart, nSplits>>
    /\ SplitHistFrame

\* The split exec call resolves: amountUsdc of collateral became amountUsdc
\* tokens of each outcome, and splitPosition returns shares = amountUsdc.  Or
\* the call fails terminally and splitPosition throws.
SplitDone ==
    /\ splitPc = "splitWait"
    /\ \/ /\ tokenBal' = [k \in Legs |-> tokenBal[k] + amountUsdc]
          /\ ctfLocked' = ctfLocked + amountUsdc
          /\ splitShares' = amountUsdc
          /\ splitPc' = "returned"
       \/ /\ splitPc' = "threw"
          /\ UNCHANGED <<tokenBal, ctfLocked, splitShares>>
    /\ UNCHANGED <<amountUsdc, allowance, isApprovedForAll, walletLog,
                   callStart, nSplits, approvedAtSplit>>
    /\ SplitHistFrame

SplitStep ==
    \/ EnsureUsdcApproval
    \/ UsdcApprovalDone
    \/ EnsureExchangeApproval
    \/ ExchangeApprovalDone
    \/ SplitDone

SplitNext ==
    \/ CallSplit
    \/ SplitStep

(***************************************************************************)
(* One position, from the start of the process to the end of its task      *)
(* (mm.js, mmExecutor.js)                                                  *)
(***************************************************************************)

\* What no action of the position task changes.
PosFrame == UNCHANGED <<execVars, dispVars, adVars, posCfgVars, lateVars>>

\* The variables of splitPosition other than the wallet's log and balances.
SplitIdle ==
    UNCHANGED <<splitPc, amountUsdc, splitShares, allowance, isApprovedForAll,
                ctfLocked, callStart, nSplits, approvedAtSplit, rejectedMin,
                allowanceAtCall, operatorAtCall>>

\* The market of the position, and pos.endTime.
PosMarket == 1
PosEnd == MarketEnd(PosMarket)

\* No position object yet (fillPrice -1: null).
NoPos ==
    [status |-> "none",
     shares |-> [k \in Legs |-> 0],
     entryPrice |-> [k \in Legs |-> 0],
     orderId |-> [k \in Legs |-> "null"],
     filled |-> [k \in Legs |-> FALSE],
     fillPrice |-> [k \in Legs |-> -1]]

\* Mutant: no startup guard.
TradeSizeTooSmallNever(size) == FALSE

\* mm.js: if (config.mmTradeSize < MIN_SHARES_PER_SIDE) process.exit(1)
TradeSizeTooSmall(size) == size < MIN_SHARES_PER_SIDE

\* executeMMStrategy: const totalNeeded = config.mmTradeSize * 2
TotalNeeded == mmTradeSize * 2

\* const entryPrice = 0.50, in cents
EntryPrice == 50

\* Mutant: the order is posted in a dry run too.
PostsToVenueAlways == TRUE

\* placeLimitSell, marketSell, the recovery orders: if (config.dryRun) return
\* a simulated result before the client is called.
PostsToVenue == ~dryRun

\* cancelOrder: if (config.dryRun || !orderId || orderId.startsWith('sim-')) return true
CancelSent(orderId) == ~(dryRun \/ orderId = "null" \/ orderId = "sim")

\* Mutant: cancelOrder reports success whatever the client did.
CancelResultAlways(orderId, clientThrew) == TRUE

\* cancelOrder: true when nothing is sent or the client call returned, false
\* when the client call threw.
CancelResult(orderId, clientThrew) ==
    IF CancelSent(orderId) THEN ~clientThrew ELSE TRUE

\* The venue's state of an order after a cancel request for it arrived.
VenueAfterCancel(state) ==
    IF state \in {"open", "partial"} THEN "cancelled" ELSE state

\* if (sellShares < 0.001), if (mergeAmt < 0.001): quantities are in tenths
NothingToSell(qty) == qty < 1

\* The process before its startup checks, no market entered.
PosInit ==
    /\ mmTradeSize \in TradeSizes
    /\ mmAdaptiveCL \in BOOLEAN
    /\ mmRecoveryBuy \in BOOLEAN
    /\ pmPc = "boot"
    /\ pos = NoPos
    /\ venueOrder = [k \in Legs |-> "none"]
    /\ venueSize = [k \in Legs |-> 0]
    /\ msRemaining = 0
    /\ pmWake = 0
    /\ unfilledKey = "none"
    /\ sellShares = 0
    /\ pmActive = "null"
    /\ venueCalls = {}
    /\ redeemRuns = 0
    /\ exitVia = "none"
    /\ qtySource = {}
    /\ sellFailed = [k \in Legs |-> FALSE]
    /\ fillBy = [k \in Legs |-> "none"]
    /\ cancelLog = <<>>

\* mm.js startup: the MM_TRADE_SIZE guard exits the process before the
\* cleanup, the redeemer and the detector are started.
StartupGuard ==
    /\ pmPc = "boot"
    /\ pmPc' = IF TradeSizeTooSmall(mmTradeSize) THEN "exited" ELSE "cleanup"
    /\ UNCHANGED <<pos, venueOrder, venueSize, msRemaining, pmWake, unfilledKey,
                   sellShares, pmActive, venueCalls, redeemRuns,
                   exitVia, qtySource, sellFailed, fillBy, cancelLog>>
    /\ UNCHANGED splitVars
    /\ PosFrame

\* cleanupOpenPositions: live, what an earlier run left over (a dangling open
\* order, a pair of unresolved tokens) is cancelled and merged; a dry run
\* does neither.
Cleanup ==
    /\ pmPc = "cleanup"
    /\ \E leftover \in BOOLEAN :
          /\ venueCalls' = IF ~dryRun /\ leftover THEN venueCalls \cup {"cancel"}
                           ELSE venueCalls
          /\ walletLog' = IF ~dryRun /\ leftover THEN Append(walletLog, "merge")
                          ELSE walletLog
    /\ pmPc' = "idle"
    /\ UNCHANGED <<pos, venueOrder, venueSize, msRemaining, pmWake, unfilledKey,
                   sellShares, pmActive, redeemRuns,
                   exitVia, qtySource, sellFailed, fillBy, cancelLog>>
    /\ UNCHANGED tokenBal
    /\ SplitIdle
    /\ PosFrame

\* redeemMMPositions, on its timer, after the position has ended: live, a resolved market with a balance is redeemed through the
\* wallet; a dry run only logs.
Redeemer ==
    /\ pmPc = "ended"
    /\ redeemRuns < MaxRedeems
    /\ redeemRuns' = redeemRuns + 1
    /\ \E redeemable \in BOOLEAN :
          walletLog' = IF ~dryRun /\ redeemable THEN Append(walletLog, "redeem")
                       ELSE walletLog
    /\ UNCHANGED <<pmPc, pos, venueOrder, venueSize, msRemaining, pmWake,
                   unfilledKey, sellShares, pmActive, venueCalls,
                   exitVia, qtySource, sellFailed, fillBy, cancelLog>>
    /\ UNCHANGED tokenBal
    /\ SplitIdle
    /\ PosFrame

\* handleNewMarket -> runStrategy -> executeMMStrategy up to its first await:
\* live the collateral balance read, in a dry run splitPosition itself.
Enter ==
    /\ pmPc = "idle"
    /\ InEmitWindow(PosMarket)
    /\ IF dryRun
       THEN /\ SplitCall(TotalNeeded)
            /\ pmPc' = "split"
       ELSE /\ UNCHANGED splitVars
            /\ pmPc' = "balance"
    /\ UNCHANGED <<pos, venueOrder, venueSize, msRemaining, pmWake, unfilledKey,
                   sellShares, pmActive, venueCalls, redeemRuns,
                   exitVia, qtySource, sellFailed, fillBy, cancelLog>>
    /\ PosFrame

\* The balance read returns: too little (or the read throws) ends the task,
\* otherwise splitPosition(conditionId, totalNeeded, negRisk) is called.
BalanceRead ==
    /\ pmPc = "balance"
    /\ \/ /\ SplitCall(TotalNeeded)
          /\ pmPc' = "split"
       \/ /\ UNCHANGED splitVars
          /\ pmPc' = "ended"
    /\ UNCHANGED <<pos, venueOrder, venueSize, msRemaining, pmWake, unfilledKey,
                   sellShares, pmActive, venueCalls, redeemRuns,
                   exitVia, qtySource, sellFailed, fillBy, cancelLog>>
    /\ PosFrame

\* splitPosition threw: the catch block returns.  It returned `shares`: the
\* YES limit SELL is sent.
SplitReturned ==
    /\ pmPc = "split"
    /\ splitPc \in {"returned", "threw"}
    /\ pmPc' = IF splitPc = "threw" THEN "ended" ELSE "sellYes"
    /\ UNCHANGED <<pos, venueOrder, venueSize, msRemaining, pmWake, unfilledKey,
                   sellShares, pmActive, venueCalls, redeemRuns,
                   exitVia, qtySource, sellFailed, fillBy, cancelLog>>
    /\ UNCHANGED splitVars
    /\ PosFrame

\* placeLimitSell returns for leg k: a simulated id in a dry run, the venue's
\* order id, or no success.  The order id and the success flag wait in the
\* record for the position object to be built (filled: !sell.success).
WithSell(p, k, ok) ==
    [p EXCEPT !.orderId[k] = IF dryRun THEN "sim" ELSE IF ok THEN "order" ELSE "null",
              !.filled[k] = ~(dryRun \/ ok)]

\* placeLimitSell(tokenId, shares, config.mmSellPrice, ...) of leg k, on the
\* venue: live, createAndPostOrder is called with size `shares`.
PostInitial(k, ok) ==
    /\ venueOrder' = IF PostsToVenue /\ ok THEN [venueOrder EXCEPT ![k] = "open"]
                     ELSE venueOrder
    /\ venueSize' = IF PostsToVenue /\ ok THEN [venueSize EXCEPT ![k] = splitShares]
                    ELSE venueSize
    /\ venueCalls' = IF PostsToVenue THEN venueCalls \cup {"post"} ELSE venueCalls

\* The YES limit SELL returns and the NO limit SELL is sent.
PlaceYes ==
    /\ pmPc = "sellYes"
    /\ \E ok \in BOOLEAN :
          /\ pos' = WithSell(pos, "yes", ok)
          /\ PostInitial("yes", ok)
    /\ pmPc' = "sellNo"
    /\ UNCHANGED <<msRemaining, pmWake, unfilledKey, sellShares, pmActive,
                   redeemRuns, exitVia, qtySource, sellFailed,
                   fillBy, cancelLog>>
    /\ UNCHANGED splitVars
    /\ PosFrame

\* Mutant: the NO leg is recorded with the configured trade size.
LegSharesBySize(k) == IF k = "no" THEN mmTradeSize ELSE splitShares

\* The position object: yes: { shares, entryPrice, ... }, no: { shares, entryPrice, ... }
\* with shares = the value splitPosition returned.
LegShares(k) == splitShares

\* The position object built by executeMMStrategy from the two sell results.
BuildPos(p) ==
    [p EXCEPT !.status = "monitoring",
              !.shares = [k \in Legs |-> LegShares(k)],
              !.entryPrice = [k \in Legs |-> EntryPrice]]

\* Mutant: cut-loss at any remaining lifetime.
CutLossDueAlways(left) == TRUE

\* monitorAndManage: if (msRemaining <= config.mmCutLossTime * 1000)
CutLossDue(left) == left <= mmCutLossTime * TicksPerSec

\* monitorAndManage, the top of an iteration for the position record p: the
\* remaining lifetime is read; none left: status expired, the loop and the
\* task end.  Otherwise the fill checks are sent.
MonitorIter(p) ==
    LET left == PosEnd - now IN
    /\ msRemaining' = left
    /\ pmWake' = 0
    /\ IF left <= 0
       THEN /\ pos' = [p EXCEPT !.status = "expired"]
            /\ exitVia' = "expired"
            /\ pmPc' = "ended"
       ELSE /\ pos' = p
            /\ exitVia' = exitVia
            /\ pmPc' = "check"

\* The NO limit SELL returns; the position object is built and stored, and
\* monitorAndManage starts its first iteration.
PlaceNo ==
    /\ pmPc = "sellNo"
    /\ \E ok \in BOOLEAN :
          /\ MonitorIter(BuildPos(WithSell(pos, "no", ok)))
          /\ PostInitial("no", ok)
    /\ UNCHANGED <<unfilledKey, sellShares, pmActive,
                   redeemRuns, qtySource, sellFailed,
                   fillBy, cancelLog>>
    /\ UNCHANGED splitVars
    /\ PosFrame

\* While the task runs, the venue matches a resting initial limit SELL, in
\* part (half of it) or in full; the matched tokens leave the wallet.
VenueFill(k) ==
    /\ pmPc # "ended"
    /\ venueOrder[k] \in {"open", "partial"}
    /\ \/ /\ venueOrder[k] = "open"
          /\ venueOrder' = [venueOrder EXCEPT ![k] = "partial"]
          /\ tokenBal' = [tokenBal EXCEPT ![k] = @ - venueSize[k] \div 2]
       \/ /\ venueOrder' = [venueOrder EXCEPT ![k] = "filled"]
          /\ tokenBal' = [tokenBal EXCEPT ![k] =
                IF venueOrder[k] = "open" THEN @ - venueSize[k]
                ELSE @ - (venueSize[k] - venueSize[k] \div 2)]
    /\ UNCHANGED <<pmPc, pos, venueSize, msRemaining, pmWake, unfilledKey,
                   sellShares, pmActive, venueCalls, redeemRuns,
                   exitVia, qtySource, sellFailed, fillBy, cancelLog>>
    /\ UNCHANGED walletLog
    /\ SplitIdle
    /\ PosFrame

\* What the fill check of leg k can return for the record p.  Live:
\* isOrderFilled is true only for an order the venue has matched (false also
\* on an error), and the fill price is config.mmSellPrice.  Dry run:
\* simPriceHitTarget compares the midpoint `mid` with config.mmSellPrice.
FillDetected(k, mid, answer) ==
    IF dryRun THEN mid >= mmSellPrice
    ELSE answer /\ venueOrder[k] = "filled"

AfterFillCheck(p, k, mid, answer) ==
    IF p.filled[k] \/ ~FillDetected(k, mid, answer) THEN p
    ELSE [p EXCEPT !.filled[k] = TRUE,
                   !.fillPrice[k] = IF dryRun THEN mid ELSE mmSellPrice]

\* The leg of p that is not filled, when exactly one is.
OneLegFilled(p) == p.filled["yes"] # p.filled["no"]
UnfilledOf(p) == IF p.filled["yes"] THEN "no" ELSE "yes"

\* monitorAndManage, the rest of an iteration: both fill checks return, then
\* both filled -> done; adaptive cut-loss enabled and exactly one leg filled
\* -> adaptiveLegCL; cut-loss time -> cutting (the legacy one-leg cut when
\* adaptive is off and one leg is filled, else the neither-filled cut);
\* otherwise sleep(10_000).
CheckFills ==
    /\ pmPc = "check"
    /\ \E midYes, midNo \in IF dryRun THEN Mids ELSE {0},
          ansYes, ansNo \in IF dryRun THEN {FALSE} ELSE BOOLEAN :
        LET p1 == AfterFillCheck(pos, "yes", midYes, ansYes)
            p2 == AfterFillCheck(p1, "no", midNo, ansNo)
        IN
        /\ fillBy' = [k \in Legs |->
                        IF p2.filled[k] /\ ~pos.filled[k]
                        THEN (IF dryRun THEN "midpoint" ELSE "venue")
                        ELSE fillBy[k]]
        /\ IF p2.filled["yes"] /\ p2.filled["no"]
           THEN /\ pos' = [p2 EXCEPT !.status = "done"]
                /\ exitVia' = "both"
                /\ pmPc' = "ended"
                /\ msRemaining' = 0
                /\ UNCHANGED <<unfilledKey, pmWake>>
           ELSE IF mmAdaptiveCL /\ OneLegFilled(p2)
           THEN /\ pos' = p2
                /\ exitVia' = "adaptive"
                /\ unfilledKey' = UnfilledOf(p2)
                /\ pmPc' = "adaptiveCancel"
                /\ msRemaining' = 0
                /\ UNCHANGED pmWake
           ELSE IF CutLossDue(msRemaining)
           THEN /\ pos' = [p2 EXCEPT !.status = "cutting"]
                /\ exitVia' = "cutting"
                /\ IF ~mmAdaptiveCL /\ OneLegFilled(p2)
                   THEN /\ unfilledKey' = UnfilledOf(p2)
                        /\ pmPc' = "legacyCancel"
                   ELSE /\ unfilledKey' = unfilledKey
                        /\ pmPc' = "neitherCancelYes"
                /\ msRemaining' = 0
                /\ UNCHANGED pmWake
           ELSE /\ pos' = p2
                /\ pmWake' = now + MonitorTicks
                /\ pmPc' = "sleep"
                /\ UNCHANGED <<msRemaining, exitVia, unfilledKey>>
    /\ UNCHANGED <<venueOrder, venueSize, sellShares, pmActive,
                   venueCalls, redeemRuns, qtySource, sellFailed,
                   cancelLog>>
    /\ UNCHANGED splitVars
    /\ PosFrame

\* sleep(10_000) ends and the next iteration of monitorAndManage starts.
MonitorWake ==
    /\ pmPc = "sleep"
    /\ now >= pmWake
    /\ MonitorIter(pos)
    /\ UNCHANGED <<venueOrder, venueSize, unfilledKey, sellShares,
                   pmActive, venueCalls, redeemRuns, qtySource,
                   sellFailed, fillBy, cancelLog>>
    /\ UNCHANGED splitVars
    /\ PosFrame

\* cancelOrder(pos[k].orderId) returns for the leg's initial order: nothing
\* is sent in a dry run or for a null or simulated id; otherwise the client's
\* cancel request is sent, and it returned (the venue withdrew the order if it
\* was resting) or threw.
DoCancel(k, clientThrew) ==
    LET id == pos.orderId[k] IN
    /\ venueCalls' = IF CancelSent(id) THEN venueCalls \cup {"cancel"} ELSE venueCalls
    /\ venueOrder' = IF CancelSent(id) /\ ~clientThrew
                     THEN [venueOrder EXCEPT ![k] = VenueAfterCancel(@)]
                     ELSE venueOrder

\* const actualShares = await getTokenBalance(s.tokenId);
\* const sellShares = actualShares !== null ? actualShares : s.shares;
\* getTokenBalance returns null when the read throws.
QtyOf(k, readOk) == IF readOk THEN tokenBal[k] ELSE pos.shares[k]
SourceOf(readOk) == IF readOk THEN "onchain" ELSE "memory"

\* s.fillPrice = config.mmSellPrice; s.filled = true (nothing left to sell)
ClosedAtTarget(p, k) ==
    [p EXCEPT !.filled[k] = TRUE, !.fillPrice[k] = mmSellPrice]

\* marketSell(tokenId, shares) returns.  Dry run: success at the midpoint.
\* Live: createAndPostMarketOrder (FOK) is called; it fills the whole
\* quantity at some price, or it is rejected, finds no liquidity or throws
\* (success false, fillPrice 0).  The venue cannot fill more than the wallet
\* holds.
MarketSellOutcomes(k, qty) ==
    IF dryRun THEN {[success |-> TRUE, fillPrice |-> mid] : mid \in Mids}
    ELSE {[success |-> FALSE, fillPrice |-> 0]} \cup
         {[success |-> TRUE, fillPrice |-> mid] : mid \in
              IF qty <= tokenBal[k] THEN Mids \ {0} ELSE {}}

\* s.fillPrice = result.fillPrice; s.filled = true, whatever result.success is.
AfterMarketSell(p, k, result) ==
    [p EXCEPT !.filled[k] = TRUE, !.fillPrice[k] = result.fillPrice]

\* The effects of one marketSell call on the venue, the wallet and the history.
MarketSold(k, qty, result) ==
    /\ venueCalls' = IF PostsToVenue THEN venueCalls \cup {"post"} ELSE venueCalls
    /\ tokenBal' = IF PostsToVenue /\ result.success
                   THEN [tokenBal EXCEPT ![k] = @ - qty] ELSE tokenBal
    /\ sellFailed' = [sellFailed EXCEPT ![k] = ~result.success]

\* ---- legacy one-leg cut-loss: cutLossOneLegFilled ------------------------

LegacyCancel ==
    /\ pmPc = "legacyCancel"
    /\ \E clientThrew \in BOOLEAN : DoCancel(unfilledKey, clientThrew)
    /\ pmPc' = "legacyBalance"
    /\ UNCHANGED <<pos, venueSize, msRemaining, pmWake, unfilledKey, sellShares,
                   pmActive, redeemRuns, exitVia, qtySource,
                   sellFailed, fillBy, cancelLog>>
    /\ UNCHANGED splitVars
    /\ PosFrame

\* The balance read returns.  Nothing to sell: the leg is closed at the target
\* price, cutLossOneLegFilled returns and monitorAndManage sets status done.
\* Otherwise marketSell(s.tokenId, sellShares) is sent.
LegacyBalance ==
    /\ pmPc = "legacyBalance"
    /\ \E readOk \in BOOLEAN :
        LET qty == QtyOf(unfilledKey, readOk) IN
        /\ sellShares' = qty
        /\ IF NothingToSell(qty)
           THEN /\ pos' = [ClosedAtTarget(pos, unfilledKey) EXCEPT !.status = "done"]
                /\ pmPc' = "ended"
                /\ UNCHANGED qtySource
           ELSE /\ pos' = pos
                /\ pmPc' = "legacySell"
                /\ qtySource' = qtySource \cup {<<"legacySell", SourceOf(readOk)>>}
    /\ UNCHANGED <<venueOrder, venueSize, msRemaining, pmWake, unfilledKey,
                   pmActive, venueCalls, redeemRuns, exitVia,
                   sellFailed, fillBy, cancelLog>>
    /\ UNCHANGED splitVars
    /\ PosFrame

\* marketSell returns; the leg is marked filled, and monitorAndManage sets
\* status done and leaves the loop.
LegacySell ==
    /\ pmPc = "legacySell"
    /\ \E result \in MarketSellOutcomes(unfilledKey, sellShares) :
          /\ pos' = [AfterMarketSell(pos, unfilledKey, result) EXCEPT !.status = "done"]
          /\ MarketSold(unfilledKey, sellShares, result)
    /\ pmPc' = "ended"
    /\ UNCHANGED <<venueOrder, venueSize, msRemaining, pmWake, unfilledKey,
                   sellShares, pmActive, redeemRuns, exitVia,
                   qtySource, fillBy, cancelLog>>
    /\ UNCHANGED walletLog
    /\ SplitIdle
    /\ PosFrame

\* ---- neither-filled cut-loss: cutLossNeitherFilled -----------------------

NeitherCancelYes ==
    /\ pmPc = "neitherCancelYes"
    /\ \E clientThrew \in BOOLEAN : DoCancel("yes", clientThrew)
    /\ pmPc' = "neitherCancelNo"
    /\ UNCHANGED <<pos, venueSize, msRemaining, pmWake, unfilledKey, sellShares,
                   pmActive, redeemRuns, exitVia, qtySource,
                   sellFailed, fillBy, cancelLog>>
    /\ UNCHANGED splitVars
    /\ PosFrame

NeitherCancelNo ==
    /\ pmPc = "neitherCancelNo"
    /\ \E clientThrew \in BOOLEAN : DoCancel("no", clientThrew)
    /\ pmPc' = "neitherBalance"
    /\ UNCHANGED <<pos, venueSize, msRemaining, pmWake, unfilledKey, sellShares,
                   pmActive, redeemRuns, exitVia, qtySource,
                   sellFailed, fillBy, cancelLog>>
    /\ UNCHANGED splitVars
    /\ PosFrame

\* Mark both sides closed at entry price; pos.status = 'done'.
ClosedAtEntry(p) ==
    [p EXCEPT !.filled = [k \in Legs |-> TRUE],
              !.fillPrice = [k \in Legs |-> p.entryPrice[k]],
              !.status = "done"]

\* No recovery buy has been attempted.
NoOrder == [side |-> "none"]

RbInit ==
    /\ rbEntry = 0
    /\ rbWake = 0
    /\ rbBuy = NoOrder
    /\ rbSell = NoOrder
    /\ rbBuys = 0
    /\ rbSells = 0

\* The controller has posted nothing.
LmInit ==
    /\ lmBook = <<>>
    /\ lmLast = NoOrder

\* No position task.
EtInit ==
    /\ etPc = "ended"
    /\ etValid = TRUE
    /\ etLeft = 0
    /\ etFilled = [k \in Legs |-> FALSE]
    /\ etStatus = "none"

\* attemptRecoveryBuy: if (!config.mmRecoveryBuy) return
AfterCut == IF mmRecoveryBuy THEN "recovery" ELSE "ended"

Min(a, b) == IF a <= b THEN a ELSE b

\* Both balance reads return: mergeAmt = min(yesActual ?? yes.shares,
\* noActual ?? no.shares).  Too low: no merge.  Dry run: mergePositions
\* returns at once.  Live: the merge exec call is enqueued and awaited.
NeitherBalance ==
    /\ pmPc = "neitherBalance"
    /\ \E okYes, okNo \in BOOLEAN :
        LET mergeAmt == Min(QtyOf("yes", okYes), QtyOf("no", okNo)) IN
        /\ sellShares' = mergeAmt
        /\ qtySource' = IF NothingToSell(mergeAmt) THEN qtySource
                        ELSE qtySource \cup {<<"merge", SourceOf(okYes)>>,
                                             <<"merge", SourceOf(okNo)>>}
        /\ IF NothingToSell(mergeAmt) \/ dryRun
           THEN /\ pos' = ClosedAtEntry(pos)
                /\ pmPc' = AfterCut
                /\ UNCHANGED walletLog
           ELSE /\ pos' = pos
                /\ pmPc' = "mergeWait"
                /\ walletLog' = Append(walletLog, "merge")
    /\ UNCHANGED <<venueOrder, venueSize, msRemaining, pmWake, unfilledKey,
                   pmActive, venueCalls, redeemRuns, exitVia,
                   sellFailed, fillBy, cancelLog>>
    /\ UNCHANGED tokenBal
    /\ SplitIdle
    /\ PosFrame

\* The merge exec call resolves (mergeAmt of each token is burnt; the chain
\* cannot burn more than the wallet holds), or it fails terminally and the
\* error leaves monitorAndManage for the catch block of runStrategy.
MergeDone ==
    /\ pmPc = "mergeWait"
    /\ \/ /\ \A k \in Legs : sellShares <= tokenBal[k]
          /\ tokenBal' = [k \in Legs |-> tokenBal[k] - sellShares]
          /\ ctfLocked' = ctfLocked - sellShares
          /\ pos' = ClosedAtEntry(pos)
          /\ pmPc' = AfterCut
       \/ /\ pmPc' = "ended"
          /\ UNCHANGED <<tokenBal, ctfLocked, pos>>
    /\ UNCHANGED <<venueOrder, venueSize, msRemaining, pmWake, unfilledKey,
                   sellShares, pmActive, venueCalls, redeemRuns,
                   exitVia, qtySource, sellFailed, fillBy, cancelLog>>
    /\ UNCHANGED <<walletLog, splitPc, amountUsdc, splitShares, allowance,
                   isApprovedForAll, callStart, nSplits, approvedAtSplit,
                   rejectedMin, allowanceAtCall, operatorAtCall>>
    /\ PosFrame

\* Mutant: a rising price is enough, whatever its level.
EligibleRising(firstPrice, lastPrice) == lastPrice >= firstPrice

\* lastPrice >= config.mmRecoveryThreshold && lastPrice >= firstPrice
Eligible(firstPrice, lastPrice) ==
    lastPrice >= mmRecoveryThreshold /\ lastPrice >= firstPrice

\* The side attemptRecoveryBuy picks from the samples of both sides (YES is
\* looked at first; <<>>: fewer than two samples of the side arrived).
Candidate(samples) ==
    IF samples["yes"] # <<>> /\ Eligible(samples["yes"][1], samples["yes"][2])
    THEN "yes"
    ELSE IF samples["no"] # <<>> /\ Eligible(samples["no"][1], samples["no"][2])
    THEN "no"
    ELSE "none"

\* recoverySize: config.mmRecoverySize > 0 ? config.mmRecoverySize : config.mmTradeSize
\* (MM_RECOVERY_SIZE is 0 by default)
RecoverySize == mmTradeSize

\* What no step of attemptRecoveryBuy changes.
RbFrame ==
    /\ UNCHANGED <<pos, venueOrder, venueSize, msRemaining, pmWake, unfilledKey,
                   sellShares, pmActive, redeemRuns, exitVia,
                   qtySource, sellFailed, fillBy, cancelLog>>
    /\ UNCHANGED splitVars
    /\ UNCHANGED <<execVars, dispVars, adVars, posCfgVars, detVars, rdVars, feeVars,
                   rtVars, ctVars, clVars, lmVars, etVars>>

\* attemptRecoveryBuy up to `await sleep(30_000)`: both sides are sampled;
\* no eligible side returns; live, the collateral balance is read and too
\* little returns; a dry run logs the buy; live, the FOK market BUY is
\* posted: not filled (or the client threw) returns, filled sets entryPrice
\* to the fill price the venue reports (to the candidate's price when it
\* reports none).
RecoveryBuy ==
    /\ pmPc = "recovery"
    /\ \E samples \in [Legs -> SamplePairs], balance \in {0, RecoverySize},
          filled \in BOOLEAN, resPrice \in {0, 80} :
          LET side == Candidate(samples)
              last == samples[side][2]
              buys == side # "none" /\ ~dryRun /\ balance >= RecoverySize
              held == side # "none" /\ (dryRun \/ (buys /\ filled))
          IN
          /\ venueCalls' = IF buys THEN venueCalls \cup {"post"} ELSE venueCalls
          /\ rbBuys' = IF buys THEN rbBuys + 1 ELSE rbBuys
          /\ rbBuy' = IF buys
                      THEN [side |-> side, firstPrice |-> samples[side][1],
                            lastPrice |-> last, balance |-> balance,
                            size |-> RecoverySize, status |-> pos.status,
                            via |-> exitVia]
                      ELSE rbBuy
          /\ rbEntry' = IF ~held THEN rbEntry
                        ELSE IF dryRun \/ resPrice = 0 THEN last ELSE resPrice
          /\ rbWake' = IF held THEN now + RecoveryHoldTicks ELSE rbWake
          /\ pmPc' = IF held THEN "recoveryHold" ELSE "ended"
    /\ UNCHANGED <<rbSell, rbSells>>
    /\ RbFrame

\* attemptRecoveryBuy after sleep(30_000): fewer than 5 s of the market left
\* returns; the midpoint is read (entryPrice when the read fails or gives 0);
\* a price at or above entryPrice returns; the price worsened: a dry run
\* logs, live the FOK market SELL is posted.
RecoveryCut ==
    /\ pmPc = "recoveryHold"
    /\ now >= rbWake
    /\ \E mid \in {0} \cup SamplePrices :
          LET left == PosEnd - now
              cur == IF mid = 0 THEN rbEntry ELSE mid
              sells == /\ ~(left < ClosingTicks)
                       /\ ~(cur >= rbEntry)
                       /\ ~dryRun
          IN
          /\ venueCalls' = IF sells THEN venueCalls \cup {"post"} ELSE venueCalls
          /\ rbSells' = IF sells THEN rbSells + 1 ELSE rbSells
          /\ rbSell' = IF sells
                       THEN [msLeft |-> left, mid |-> mid, entryPrice |-> rbEntry]
                       ELSE rbSell
    /\ pmPc' = "ended"
    /\ UNCHANGED <<rbBuy, rbBuys, rbEntry, rbWake>>
    /\ RbFrame

\* ---- adaptive cut-loss: adaptiveLegCL, its effects on the venue -----------

\* await cancelOrder(s.orderId); s.orderId = null
AdaptiveCancel ==
    /\ pmPc = "adaptiveCancel"
    /\ \E clientThrew \in BOOLEAN : DoCancel(unfilledKey, clientThrew)
    /\ pos' = [pos EXCEPT !.orderId[unfilledKey] = "null"]
    /\ pmPc' = "adaptiveBalance"
    /\ UNCHANGED <<venueSize, msRemaining, pmWake, unfilledKey, sellShares,
                   pmActive, redeemRuns, exitVia, qtySource,
                   sellFailed, fillBy, cancelLog>>
    /\ UNCHANGED splitVars
    /\ PosFrame

\* The balance is read once and reused for every later sell order.  Nothing
\* to sell: the leg is closed at the target price, status done, return.
AdaptiveBalance ==
    /\ pmPc = "adaptiveBalance"
    /\ \E readOk \in BOOLEAN :
        LET qty == QtyOf(unfilledKey, readOk) IN
        /\ sellShares' = qty
        /\ IF NothingToSell(qty)
           THEN /\ pos' = [ClosedAtTarget(pos, unfilledKey) EXCEPT !.status = "done"]
                /\ pmPc' = "ended"
                /\ UNCHANGED qtySource
           ELSE /\ pos' = pos
                /\ pmPc' = "adaptiveLoop"
                /\ qtySource' = qtySource \cup {<<"adaptive", SourceOf(readOk)>>}
    /\ pmWake' = now
    /\ UNCHANGED <<venueOrder, venueSize, msRemaining, unfilledKey,
                   pmActive, venueCalls, redeemRuns, exitVia,
                   sellFailed, fillBy, cancelLog>>
    /\ UNCHANGED splitVars
    /\ PosFrame

\* One iteration of the controller's loop, by its effects: at the deadline the
\* active limit is cancelled and the fallback market SELL is sent; before it,
\* the active limit is found filled (status done, return), or it is cancelled
\* (below the floor, dropped, improved) and a limit for sellShares is placed
\* when none is active and the price allows, then sleep(pollMs).  Which of
\* these the prices select is the subject of the controller's own part above.
AdaptivePoll ==
    /\ pmPc = "adaptiveLoop"
    /\ now >= pmWake
    /\ IF DeadlineReached(PosEnd - now)
       THEN /\ venueCalls' = IF CancelSent(pmActive) THEN venueCalls \cup {"cancel"}
                             ELSE venueCalls
            /\ pmActive' = "null"
            /\ pmPc' = "adaptiveSell"
            /\ pmWake' = 0
            /\ UNCHANGED <<pos, fillBy, tokenBal>>
       ELSE \/ /\ pmActive # "null"
               /\ dryRun \/ sellShares <= tokenBal[unfilledKey]
               /\ \E mid \in Mids \ {0} :
                     /\ dryRun => mid >= mmSellPrice
                     /\ pos' = [pos EXCEPT !.filled[unfilledKey] = TRUE,
                                           !.fillPrice[unfilledKey] = mid,
                                           !.status = "done"]
               /\ fillBy' = [fillBy EXCEPT ![unfilledKey] =
                                IF dryRun THEN "midpoint" ELSE "venue"]
               /\ tokenBal' = IF dryRun THEN tokenBal
                              ELSE [tokenBal EXCEPT ![unfilledKey] = @ - sellShares]
               /\ pmPc' = "ended"
               /\ pmWake' = 0
               /\ venueCalls' = venueCalls
               /\ UNCHANGED pmActive
            \/ /\ \E cancelIt, placeIt, ok \in BOOLEAN :
                    LET cancelled == cancelIt /\ pmActive # "null"
                        placed == placeIt /\ (cancelled \/ pmActive = "null")
                    IN
                    /\ venueCalls' = venueCalls
                          \cup (IF cancelled /\ CancelSent(pmActive) THEN {"cancel"} ELSE {})
                          \cup (IF placed /\ PostsToVenue THEN {"post"} ELSE {})
                    /\ pmActive' = IF placed
                                   THEN (IF dryRun THEN "sim"
                                         ELSE IF ok THEN "order" ELSE "null")
                                   ELSE IF cancelled THEN "null" ELSE pmActive
               /\ pmWake' = now + PollTicks
               /\ UNCHANGED <<pos, pmPc, fillBy, tokenBal>>
    /\ UNCHANGED <<venueOrder, venueSize, msRemaining, unfilledKey, sellShares,
                   redeemRuns, exitVia, qtySource, sellFailed, cancelLog>>
    /\ UNCHANGED walletLog
    /\ SplitIdle
    /\ PosFrame

\* The fallback marketSell returns: s.fillPrice = result.fillPrice,
\* s.filled = true, pos.status = 'done'.
AdaptiveSell ==
    /\ pmPc = "adaptiveSell"
    /\ \E result \in MarketSellOutcomes(unfilledKey, sellShares) :
          /\ pos' = [AfterMarketSell(pos, unfilledKey, result) EXCEPT !.status = "done"]
          /\ MarketSold(unfilledKey, sellShares, result)
    /\ pmPc' = "ended"
    /\ UNCHANGED <<venueOrder, venueSize, msRemaining, pmWake, unfilledKey,
                   sellShares, pmActive, redeemRuns, exitVia,
                   qtySource, fillBy, cancelLog>>
    /\ UNCHANGED walletLog
    /\ SplitIdle
    /\ PosFrame

\* The steps of the position task once the process has started.
\* calcPnl: (fillPrice - entryPrice) * shares of a filled leg, else 0; in
\* thousandths of a USDC (cents times tenths of a share).
LegPnl(p, k) ==
    IF p.filled[k] THEN (p.fillPrice[k] - p.entryPrice[k]) * p.shares[k] ELSE 0

\* calcPnl(pos): yesPnl + noPnl
CalcPnl(p) == LegPnl(p, "yes") + LegPnl(p, "no")

PosStep ==
    \/ Enter
    \/ BalanceRead
    \/ SplitStep
    \/ SplitReturned
    \/ PlaceYes
    \/ PlaceNo
    \/ CheckFills
    \/ MonitorWake
    \/ LegacyCancel
    \/ LegacyBalance
    \/ LegacySell
    \/ NeitherCancelYes
    \/ NeitherCancelNo
    \/ NeitherBalance
    \/ MergeDone
    \/ RecoveryBuy
    \/ RecoveryCut
    \/ AdaptiveCancel
    \/ AdaptiveBalance
    \/ AdaptivePoll
    \/ AdaptiveSell

\* Time passes while the task waits for a market, a timer or a transaction;
\* the other requests of the task are answered within the tick.
PosTick ==
    /\ pmPc \in {"idle", "split", "sleep", "adaptiveLoop", "mergeWait",
                 "recoveryHold"}
    /\ Tick

PosNext ==
    \/ StartupGuard
    \/ Cleanup
    \/ Redeemer
    \/ PosStep
    \/ \E k \in Legs : VenueFill(k)
    \/ PosTick

\* ---- cancelOrder called by any caller, for any order id ------------------

\* A position whose legs carry any order ids, and a venue that knows each
\* real id in any state ("none": the id is unknown to the venue, "filled":
\* settled).  A dry run has simulated ids only.
CancelInit ==
    /\ mmTradeSize = 50 /\ mmAdaptiveCL = FALSE /\ mmRecoveryBuy = FALSE
    /\ pmPc = "sleep"
    /\ \E ids \in [Legs -> {"null", "sim", "order"}] :
          /\ \A k \in Legs : (ids[k] = "sim") <=> dryRun
          /\ pos = [BuildPos(NoPos) EXCEPT !.orderId = ids]
    /\ venueOrder \in [Legs -> {"none", "open", "partial", "filled", "cancelled"}]
    /\ \A k \in Legs : pos.orderId[k] # "order" => venueOrder[k] = "none"
    /\ venueSize = [k \in Legs |-> 0]
    /\ msRemaining = 0
    /\ pmWake = 0
    /\ unfilledKey = "none"
    /\ sellShares = 0
    /\ pmActive = "null"
    /\ venueCalls = {}
    /\ redeemRuns = 0
    /\ exitVia = "none"
    /\ qtySource = {}
    /\ sellFailed = [k \in Legs |-> FALSE]
    /\ fillBy = [k \in Legs |-> "none"]
    /\ cancelLog = <<>>

\* A caller awaits cancelOrder(pos[k].orderId); the call and its result are
\* logged.
CancelCall(k) ==
    /\ Len(cancelLog) < MaxCancels
    /\ \E clientThrew \in BOOLEAN :
          /\ DoCancel(k, clientThrew)
          /\ cancelLog' = Append(cancelLog,
                [leg |-> k, id |-> pos.orderId[k], state |-> venueOrder[k],
                 threw |-> CancelSent(pos.orderId[k]) /\ clientThrew,
                 result |-> CancelResult(pos.orderId[k], clientThrew)])
    /\ UNCHANGED <<pmPc, pos, venueSize, msRemaining, pmWake, unfilledKey,
                   sellShares, pmActive, redeemRuns, exitVia,
                   qtySource, sellFailed, fillBy>>
    /\ UNCHANGED splitVars
    /\ PosFrame

CancelNext == \E k \in Legs : CancelCall(k)

(***************************************************************************)
(* Startup and the market detector (mm.js, mmDetector.js)                  *)
(***************************************************************************)

DetFrame == UNCHANGED <<execVars, activePositions, pendingByAsset, taskPc, fate,
                        adVars, pmVars, rdVars, feeVars, rtVars, ctVars, finalVars>>

\* currentSlot(): Math.floor(Date.now() / 1000 / SLOT_SEC) * SLOT_SEC
CurrentSlot(t) == (t \div SlotTicks) * SlotTicks

\* Mutant: the poll targets the slot that is current.
NextSlotIsCurrent(t) == CurrentSlot(t)

\* nextSlot(): currentSlot() + SLOT_SEC
NextSlot(t) == CurrentSlot(t) + SlotTicks

\* scheduleAsset: elapsedSec > 15, with openAt the start of the slot
TooOld(elapsed) == elapsed > FreshTicks

\* Mutant: startup does not wait for the cleanup it started.
CleanupSettledNoAwait(pc) == pc # "idle"

\* mm.js: try { await cleanupOpenPositions(...) } catch { warn }: the
\* statements after it run once the call has returned or thrown.
CleanupSettled(pc) == pc \in {"returned", "threw"}

DetInit ==
    /\ cleanupPc = "idle"
    /\ detStarted = FALSE
    /\ seenKeys = {}
    /\ pollSlot = [p \in Polls |-> 0]
    /\ pollStart = [p \in Polls |-> 0]
    /\ fetchPc = [p \in Polls |-> [a \in Assets |-> "none"]]
    /\ nextPollAt = 0
    /\ cbLog = {}

\* Time passes: while the cleanup waits for the venue, and while the detector
\* waits for its timer or for a fetch; a timer that is due fires first.
DetTick ==
    /\ now < MaxNow
    /\ \/ cleanupPc = "cancelling"
       \/ detStarted /\ (pollSlot[NPolls] = 0 => now < nextPollAt)
    /\ now' = now + 1
    /\ UNCHANGED detVars
    /\ DetFrame

\* mm.js calls cleanupOpenPositions, which starts with the open orders of the
\* venue.
CleanupBegin ==
    /\ cleanupPc = "idle"
    /\ cleanupPc' = "cancelling"
    /\ UNCHANGED <<detStarted, seenKeys, pollSlot, pollStart, fetchPc,
                   nextPollAt, cbLog, now>>
    /\ DetFrame

\* The open orders are cancelled (or could not be fetched).  Then the
\* positions are fetched: a failed fetch or an empty list returns, a list
\* with positions goes on to the merges.
CleanupCancelled ==
    /\ cleanupPc = "cancelling"
    /\ \E positions \in {"failed", "empty", "some"} :
          cleanupPc' = IF positions = "some" THEN "merging" ELSE "returned"
    /\ UNCHANGED <<detStarted, seenKeys, pollSlot, pollStart, fetchPc,
                   nextPollAt, cbLog, now>>
    /\ DetFrame

\* The merges are awaited one by one, each in a try/catch; the provider
\* lookup before them is outside every try and may throw.
CleanupMerged ==
    /\ cleanupPc = "merging"
    /\ \E threw \in BOOLEAN :
          cleanupPc' = IF threw THEN "threw" ELSE "returned"
    /\ UNCHANGED <<detStarted, seenKeys, pollSlot, pollStart, fetchPc,
                   nextPollAt, cbLog, now>>
    /\ DetFrame

\* poll(): next = nextSlot(), then scheduleAsset(asset, next) for every
\* asset, each run up to its first await: a key in seenKeys returns, any
\* other key starts the metadata fetch.
PollStarts(p) ==
    LET next == NextSlot(now) IN
    /\ pollSlot' = [pollSlot EXCEPT ![p] = next]
    /\ pollStart' = [pollStart EXCEPT ![p] = now]
    /\ fetchPc' = [fetchPc EXCEPT ![p] =
          [a \in Assets |-> IF <<a, next>> \in seenKeys'
                            THEN "seen" ELSE "fetching"]]
    /\ nextPollAt' = now + mmPollInterval

\* startMMDetector(handleNewMarket): seenKeys.clear(), the first poll, and
\* the interval timer.
StartMMDetector ==
    /\ CleanupSettled(cleanupPc)
    /\ ~detStarted
    /\ detStarted' = TRUE
    /\ seenKeys' = {}
    /\ PollStarts(1)
    /\ UNCHANGED <<cleanupPc, cbLog, now>>
    /\ DetFrame

\* The interval timer fires: the next poll starts, whatever earlier polls
\* still wait for.
PollTimer(p) ==
    /\ detStarted
    /\ p > 1 /\ pollSlot[p] = 0 /\ pollSlot[p - 1] # 0
    /\ now >= nextPollAt
    /\ seenKeys' = seenKeys
    /\ PollStarts(p)
    /\ UNCHANGED <<cleanupPc, detStarted, cbLog, now>>
    /\ DetFrame

\* scheduleAsset after `await fetchBySlug`: no market yet (return, the next
\* poll retries), a market without token ids (key recorded, skipped), or a
\* market: the key is recorded, a slot open for too long is skipped, any
\* other is handed to the callback (handleNewMarket), which starts or queues
\* the position task.
FetchReturns(p, a) ==
    /\ fetchPc[p][a] = "fetching"
    /\ \E result \in {"null", "nodata", "market"} :
          /\ fetchPc' = [fetchPc EXCEPT ![p][a] = result]
          /\ seenKeys' = IF result = "null" THEN seenKeys
                         ELSE seenKeys \union {<<a, pollSlot[p]>>}
          /\ cbLog' = IF result = "market" /\ ~TooOld(now - pollSlot[p])
                      THEN cbLog \union {[asset |-> a, slot |-> pollSlot[p],
                                          poll |-> p]}
                      ELSE cbLog
    /\ UNCHANGED <<cleanupPc, detStarted, pollSlot, pollStart, nextPollAt, now>>
    /\ DetFrame

DetNext ==
    \/ CleanupBegin
    \/ CleanupCancelled
    \/ CleanupMerged
    \/ StartMMDetector
    \/ \E p \in Polls : PollTimer(p)
    \/ \E p \in Polls, a \in Assets : FetchReturns(p, a)
    \/ DetTick

(***************************************************************************)
(* The periodic redeemer (ctf.js redeemMMPositions, mm.js startRedeemer)   *)
(***************************************************************************)

RdFrame == UNCHANGED <<execVars, dispVars, adVars, pmVars, detVars, feeVars, rtVars,
                       ctVars, finalVars>>

\* Mutant: the resolution check is gone.
UnresolvedNever(den) == FALSE

\* if (denominator.isZero()) continue
Unresolved(den) == den = 0

\* totalShares = balances.reduce((a, b) => a + b, 0)
TotalShares(bal) == bal["yes"] + bal["no"]

\* if (totalShares < 0.001) continue
NothingOnChain(total) == total < RedeemDust

\* The condition after cond in the iteration order of byCondition ("end":
\* the loop is over).
CondAfter(cond) == IF cond = "c1" THEN "c2" ELSE "end"

\* No pass has run; nothing has resolved.
RdIdle ==
    /\ rdDen = [c \in Conds |-> 0]
    /\ rdPc = [p \in Passes |-> "idle"]
    /\ rdCond = [p \in Passes |-> "end"]
    /\ rdRead = [p \in Passes |-> [den |-> 0, total |-> 0]]
    /\ rdExamined = [p \in Passes |-> {}]
    /\ rdSkipped = {}
    /\ rdLog = {}

RdInit ==
    /\ RdIdle
    /\ rdBal = [c \in Conds |-> [k \in Legs |-> 0]]

\* The oracle reports the payouts of a condition: payoutDenominator becomes
\* non-zero and stays so.
Resolve(c) ==
    /\ rdDen[c] = 0
    /\ rdDen' = [rdDen EXCEPT ![c] = 1]
    /\ UNCHANGED <<rdBal, rdPc, rdCond, rdRead, rdExamined, rdSkipped, rdLog>>
    /\ RdFrame

\* The timer fires (the first pass runs at startRedeemer): the pass fetches
\* the wallet's positions.  A failed fetch or an empty list ends the pass;
\* otherwise the loop over the conditions starts.  The timer does not wait
\* for an earlier pass.
PassStart(p) ==
    /\ rdPc[p] = "idle"
    /\ p > 1 => rdPc[p - 1] # "idle"
    /\ \E listed \in BOOLEAN :
          /\ rdPc' = [rdPc EXCEPT ![p] = IF listed THEN "den" ELSE "nolist"]
          /\ rdCond' = [rdCond EXCEPT ![p] = IF listed THEN "c1" ELSE "end"]
    /\ UNCHANGED <<rdDen, rdBal, rdRead, rdExamined, rdSkipped, rdLog>>
    /\ RdFrame

\* Leave the body of the loop for the next condition (continue, the end of
\* the body, or its catch).
NextCond(p) ==
    /\ rdCond' = [rdCond EXCEPT ![p] = CondAfter(rdCond[p])]
    /\ rdPc' = [rdPc EXCEPT ![p] = IF CondAfter(rdCond[p]) = "end"
                                   THEN "done" ELSE "den"]

\* await ctf.payoutDenominator(conditionId): a throw is caught by the body's
\* catch, an unresolved condition is skipped.
ReadDenominator(p) ==
    LET c == rdCond[p] IN
    /\ rdPc[p] = "den"
    /\ rdExamined' = [rdExamined EXCEPT ![p] = @ \union {c}]
    /\ \E threw \in BOOLEAN :
          IF threw
          THEN NextCond(p) /\ UNCHANGED <<rdRead, rdSkipped>>
          ELSE /\ rdRead' = [rdRead EXCEPT ![p] = [den |-> rdDen[c], total |-> 0]]
               /\ IF Unresolved(rdDen[c])
                  THEN NextCond(p) /\ rdSkipped' = rdSkipped \union {<<p, c>>}
                  ELSE /\ rdPc' = [rdPc EXCEPT ![p] = "bal"]
                       /\ UNCHANGED <<rdCond, rdSkipped>>
    /\ UNCHANGED <<rdDen, rdBal, rdLog>>
    /\ RdFrame

\* The balances of the condition's tokens are read and summed; a total below
\* 0.001 is skipped, a dry run logs and goes on, a live run enqueues
\* redeemPositions with execSafeCall and awaits it.
ReadBalances(p) ==
    LET c == rdCond[p]
        total == TotalShares(rdBal[c]) IN
    /\ rdPc[p] = "bal"
    /\ \E threw \in BOOLEAN :
          IF threw
          THEN NextCond(p) /\ UNCHANGED <<rdRead, rdLog>>
          ELSE /\ rdRead' = [rdRead EXCEPT ![p].total = total]
               /\ IF NothingOnChain(total) \/ dryRun
                  THEN NextCond(p) /\ UNCHANGED rdLog
                  ELSE /\ rdPc' = [rdPc EXCEPT ![p] = "exec"]
                       /\ rdLog' = rdLog \union
                             {[pass |-> p, cond |-> c, den |-> rdRead[p].den,
                               total |-> total]}
                       /\ UNCHANGED rdCond
    /\ UNCHANGED <<rdDen, rdBal, rdExamined, rdSkipped>>
    /\ RdFrame

\* execSafeCall settles: the redemption was mined (the tokens of the
\* condition are burnt) or the call failed (caught by the body's catch).
RedeemSettles(p) ==
    LET c == rdCond[p] IN
    /\ rdPc[p] = "exec"
    /\ \E mined \in BOOLEAN :
          rdBal' = IF mined THEN [rdBal EXCEPT ![c] = [k \in Legs |-> 0]]
                   ELSE rdBal
    /\ NextCond(p)
    /\ rdRead' = [rdRead EXCEPT ![p] = [den |-> 0, total |-> 0]]
    /\ UNCHANGED <<rdDen, rdExamined, rdSkipped, rdLog>>
    /\ RdFrame

RdNext ==
    \/ \E c \in Conds : Resolve(c)
    \/ \E p \in Passes : PassStart(p)
    \/ \E p \in Passes : ReadDenominator(p)
    \/ \E p \in Passes : ReadBalances(p)
    \/ \E p \in Passes : RedeemSettles(p)

(***************************************************************************)
(* Fees of a wallet transaction (ctf.js _doExecSafeCall)                   *)
(***************************************************************************)

FeeFrame == UNCHANGED <<execVars, dispVars, adVars, pmVars, detVars, rdVars, rtVars,
                        ctVars, finalVars>>

\* feeData.maxPriorityFeePerGas?.gt(MIN_TIP) ? feeData.maxPriorityFeePerGas : MIN_TIP
GasTip(oracleTip) ==
    IF oracleTip # Absent /\ oracleTip > MIN_TIP THEN oracleTip ELSE MIN_TIP

\* feeData.maxFeePerGas ?? ethers.utils.parseUnits('500', 'gwei')
GasFeeCap(oracleMax) ==
    IF oracleMax # Absent THEN oracleMax ELSE DefaultFeeCap

FeeInit ==
    /\ feePc = "sign"
    /\ feeData = [maxPriorityFeePerGas |-> Absent, maxFeePerGas |-> Absent]
    /\ txFees = [maxPriorityFeePerGas |-> 0, maxFeePerGas |-> 0]

\* await provider.getFeeData(): the node answers with any fees, or without
\* one of them.
GetFeeData ==
    /\ feePc = "sign"
    /\ feePc' = "fees"
    /\ \E tip \in OracleTips, max \in OracleMaxFees :
          feeData' = [maxPriorityFeePerGas |-> tip, maxFeePerGas |-> max]
    /\ UNCHANGED txFees
    /\ FeeFrame

\* safe.execTransaction(..., { maxPriorityFeePerGas: gasTip, maxFeePerGas: gasFeeCap })
ExecTransaction ==
    /\ feePc = "fees"
    /\ feePc' = "submitted"
    /\ txFees' = [maxPriorityFeePerGas |-> GasTip(feeData.maxPriorityFeePerGas),
                  maxFeePerGas |-> GasFeeCap(feeData.maxFeePerGas)]
    /\ UNCHANGED feeData
    /\ FeeFrame

FeeNext == GetFeeData \/ ExecTransaction

(***************************************************************************)
(* mergePositions, and a split followed by the merge of its shares         *)
(* (ctf.js)                                                                *)
(***************************************************************************)

RtFrame == UNCHANGED <<execVars, dispVars, adVars, posVars, detVars, rdVars, feeVars,
                       ctVars, finalVars>>

\* Mutant: the merge reports nothing recovered.
RecoveredNone(sharesPerSide) == 0

\* mergePositions returns sharesPerSide (dry run: recovered = sharesPerSide).
Recovered(sharesPerSide) == sharesPerSide

RtInit ==
    /\ rtPc = "idle"
    /\ mergePc = "idle"
    /\ mergeShares = 0
    /\ recoveredUsdc = 0
    /\ rtBefore = [tokens |-> [k \in Legs |-> 0], locked |-> 0]

\* A split whose tokens stay in the wallet, before the round trip.
EarlierSplit ==
    /\ rtPc = "idle"
    /\ splitPc \in {"idle", "returned", "threw"}
    /\ nSplits < MaxSplits - 1
    /\ \E amount \in Amounts : SplitCall(amount)
    /\ UNCHANGED rtVars
    /\ RtFrame

\* The round trip starts: splitPosition(conditionId, amount).
RoundTripSplit ==
    /\ rtPc = "idle"
    /\ splitPc \in {"idle", "returned", "threw"}
    /\ nSplits < MaxSplits
    /\ \E amount \in Amounts : SplitCall(amount)
    /\ rtPc' = "split"
    /\ rtBefore' = [tokens |-> tokenBal, locked |-> ctfLocked]
    /\ UNCHANGED <<mergePc, mergeShares, recoveredUsdc>>
    /\ RtFrame

\* mergePositions(conditionId, sharesPerSide) up to its first await: a dry
\* run returns at once, a live run enqueues the merge with execSafeCall.
MergeCall(sharesPerSide) ==
    /\ mergeShares' = sharesPerSide
    /\ mergePc' = IF dryRun THEN "returned" ELSE "wait"
    /\ recoveredUsdc' = IF dryRun THEN Recovered(sharesPerSide) ELSE 0
    /\ walletLog' = IF dryRun THEN walletLog ELSE Append(walletLog, "merge")

\* The split has returned its shares; they are merged back.
RoundTripMerge ==
    /\ rtPc = "split"
    /\ splitPc = "returned"
    /\ MergeCall(splitShares)
    /\ rtPc' = "merge"
    /\ UNCHANGED <<rtBefore, splitPc, amountUsdc, splitShares, allowance,
                   isApprovedForAll, tokenBal, ctfLocked, callStart, nSplits,
                   approvedAtSplit, rejectedMin, allowanceAtCall, operatorAtCall>>
    /\ RtFrame

\* The merge exec call resolves: sharesPerSide tokens of each outcome are
\* burnt for sharesPerSide of collateral, and mergePositions returns
\* sharesPerSide.  Or the call fails terminally (also: the contract reverts
\* when a balance is short) and mergePositions throws.
MergeMined ==
    /\ mergePc = "wait"
    /\ \/ /\ \A k \in Legs : mergeShares <= tokenBal[k]
          /\ tokenBal' = [k \in Legs |-> tokenBal[k] - mergeShares]
          /\ ctfLocked' = ctfLocked - mergeShares
          /\ recoveredUsdc' = Recovered(mergeShares)
          /\ mergePc' = "returned"
       \/ /\ mergePc' = "threw"
          /\ UNCHANGED <<tokenBal, ctfLocked, recoveredUsdc>>
    /\ UNCHANGED <<rtPc, rtBefore, mergeShares, walletLog, splitPc, amountUsdc,
                   splitShares, allowance, isApprovedForAll, callStart, nSplits,
                   approvedAtSplit, rejectedMin, allowanceAtCall, operatorAtCall>>
    /\ RtFrame

RtNext ==
    \/ EarlierSplit
    \/ RoundTripSplit
    \/ SplitStep
    \/ RoundTripMerge
    \/ MergeMined

(***************************************************************************)
(* Copy-trade BUY events of one market (wsWatcher.js handleMessage,        *)
(* bot.js handleTrade, executor.js executeBuy)                             *)
(***************************************************************************)

CtFrame == UNCHANGED <<execVars, dispVars, adVars, pmVars, detVars, rdVars,
                       feeVars, rtVars, finalVars>>

\* The BUY events whose handler has started and not returned.
InFlight == {e \in Events : ctPc[e] \in {"opts", "size", "order"}}

\* calculateTradeSize, SIZE_MODE=percentage:
\* config.maxPositionSize * (config.sizePercent / 100)
CalculateTradeSize == (maxPositionSize * sizePercent) \div 100

\* Cap so we don't exceed maxPositionSize: Math.min(tradeSize, remaining),
\* or Math.min(tradeSize, config.maxPositionSize) without a position.
CappedSize(existing) ==
    LET room == IF existing = Absent THEN maxPositionSize
                ELSE maxPositionSize - existing
    IN IF CalculateTradeSize < room THEN CalculateTradeSize ELSE room

\* The position file's totalCost of the market after a buy of `cost` by a
\* handler that read `existing`: updatePosition with existingPos.totalCost +
\* cost (no write when the entry is gone), or addPosition (replaces the entry).
Recorded(store, existing, cost) ==
    IF existing # Absent
    THEN (IF store # Absent THEN existing + cost ELSE store)
    ELSE cost

CtInit ==
    /\ ctPc = [e \in Events |-> "new"]
    /\ ctExisting = [e \in Events |-> Absent]
    /\ ctSize = [e \in Events |-> 0]
    /\ ctStore = Absent
    /\ ctSpent = 0

\* handleMessage: a BUY event of the trader for the market passes the
\* filters and tradeHandler(trade) is called without being awaited;
\* handleTrade calls executeBuy, which runs up to `await getMarketOptions`.
WsTrade(e) ==
    /\ ctPc[e] = "new"
    /\ e > 1 => ctPc[e - 1] # "new"
    /\ ctPc' = [ctPc EXCEPT ![e] = "opts"]
    /\ UNCHANGED <<ctExisting, ctSize, ctStore, ctSpent>>
    /\ CtFrame

\* executeBuy after getMarketOptions: the expiry guard, then the existing
\* position is read and the max-position check made.
BuyChecks(e) ==
    /\ ctPc[e] = "opts"
    /\ \E open \in BOOLEAN :
          IF ~open \/ (ctStore # Absent /\ ctStore >= maxPositionSize)
          THEN /\ ctPc' = [ctPc EXCEPT ![e] = "skipped"]
               /\ UNCHANGED ctExisting
          ELSE /\ ctPc' = [ctPc EXCEPT ![e] = "size"]
               /\ ctExisting' = [ctExisting EXCEPT ![e] = ctStore]
    /\ UNCHANGED <<ctSize, ctStore, ctSpent>>
    /\ CtFrame

\* After calculateTradeSize and the balance read: the size is capped with
\* the position read before; too small a size or too small a balance
\* returns; a dry run records the buy at once; a live run posts the order.
BuySized(e) ==
    LET size == CappedSize(ctExisting[e]) IN
    /\ ctPc[e] = "size"
    /\ \E funded \in BOOLEAN :
          IF size < minTradeSize \/ ~funded
          THEN /\ ctPc' = [ctPc EXCEPT ![e] = "skipped"]
               /\ UNCHANGED <<ctSize, ctStore, ctSpent>>
          ELSE IF dryRun
          THEN /\ ctPc' = [ctPc EXCEPT ![e] = "done"]
               /\ ctSize' = [ctSize EXCEPT ![e] = size]
               /\ ctStore' = Recorded(ctStore, ctExisting[e], size)
               /\ ctSpent' = ctSpent + size
          ELSE /\ ctPc' = [ctPc EXCEPT ![e] = "order"]
               /\ ctSize' = [ctSize EXCEPT ![e] = size]
               /\ UNCHANGED <<ctStore, ctSpent>>
    /\ UNCHANGED ctExisting
    /\ CtFrame

\* The FAK order (with its retries) has filled the whole amount, or nothing:
\* a fill is recorded in the position file.
BuyFilled(e) ==
    /\ ctPc[e] = "order"
    /\ \E filled \in BOOLEAN :
          IF filled
          THEN /\ ctPc' = [ctPc EXCEPT ![e] = "done"]
               /\ ctStore' = Recorded(ctStore, ctExisting[e], ctSize[e])
               /\ ctSpent' = ctSpent + ctSize[e]
          ELSE /\ ctPc' = [ctPc EXCEPT ![e] = "skipped"]
               /\ UNCHANGED <<ctStore, ctSpent>>
    /\ UNCHANGED <<ctExisting, ctSize>>
    /\ CtFrame

CtNext ==
    \/ \E e \in Events : WsTrade(e)
    \/ \E e \in Events : BuyChecks(e)
    \/ \E e \in Events : BuySized(e)
    \/ \E e \in Events : BuyFilled(e)

(***************************************************************************)
(* The merges of the startup cleanup (ctf.js cleanupOpenPositions)         *)
(***************************************************************************)

\* The variables of the parts written before this one.
partVars == <<execVars, dispVars, adVars, pmVars, detVars, rdVars, feeVars, rtVars,
              ctVars>>

ClFrame == UNCHANGED <<partVars, rbVars, lmVars, etVars>>

\* Mutant: one side with enough shares is enough for a merge.
TooLowToMergeOneSide(bal) == \A k \in Legs : bal[k] < MIN_SHARES_PER_SIDE

\* nonZero = balances.filter(b => b.shares >= MIN_SHARES_PER_SIDE);
\* nonZero.length < 2
TooLowToMerge(bal) == \E k \in Legs : bal[k] < MIN_SHARES_PER_SIDE

\* Math.min(...nonZero.map(b => b.shares)), nonZero being both sides
MinShares(bal) == Min(bal["yes"], bal["no"])

\* Nothing of the cleanup has run; nothing has resolved.
ClIdle ==
    /\ clPc = "idle"
    /\ clCond = "end"
    /\ clDen = [c \in Conds |-> 0]
    /\ clReadDen = 0
    /\ clVisited = {}
    /\ clFailed = {}
    /\ clLog = {}

ClInit ==
    /\ ClIdle
    /\ clBal = [c \in Conds |-> [k \in Legs |-> 0]]

\* The oracle reports the payouts of a condition.
ClResolve(c) ==
    /\ clDen[c] = 0
    /\ clDen' = [clDen EXCEPT ![c] = 1]
    /\ UNCHANGED <<clPc, clCond, clBal, clReadDen, clVisited, clFailed, clLog>>
    /\ ClFrame

\* The positions API has listed the wallet's tokens: `await
\* getPolygonProvider()` (outside every try: a throw leaves the cleanup),
\* then the positions are grouped by condition and the loop starts.
ClStart ==
    /\ clPc = "idle"
    /\ \E threw \in BOOLEAN :
          IF threw
          THEN clPc' = "threw" /\ UNCHANGED clCond
          ELSE clPc' = "den" /\ clCond' = "c1"
    /\ UNCHANGED <<clDen, clBal, clReadDen, clVisited, clFailed, clLog>>
    /\ ClFrame

\* Leave the body of the loop for the next condition (continue, the end of
\* the body, or its catch).
ClNextCond ==
    /\ clCond' = CondAfter(clCond)
    /\ clPc' = IF CondAfter(clCond) = "end" THEN "done" ELSE "den"

\* await ctf.payoutDenominator(conditionId): a throw is caught by the body's
\* catch, a resolved condition is skipped.
ClReadDenominator ==
    /\ clPc = "den"
    /\ clVisited' = clVisited \union {clCond}
    /\ \E threw \in BOOLEAN :
          IF threw
          THEN /\ ClNextCond
               /\ clFailed' = clFailed \union {clCond}
               /\ UNCHANGED clReadDen
          ELSE /\ clReadDen' = clDen[clCond]
               /\ UNCHANGED clFailed
               /\ IF clDen[clCond] # 0
                  THEN ClNextCond
                  ELSE clPc' = "bal" /\ UNCHANGED clCond
    /\ UNCHANGED <<clDen, clBal, clLog>>
    /\ ClFrame

\* The balances of the condition's tokens are read (a token the positions
\* API did not list is one with no balance).  Fewer than two sides with
\* MIN_SHARES_PER_SIDE: skipped.  Otherwise a dry run logs and goes on, a
\* live run calls mergePositions(conditionId, minShares), which enqueues
\* the merge with execSafeCall and awaits it.
ClReadBalances ==
    LET bal == clBal[clCond] IN
    /\ clPc = "bal"
    /\ \E threw \in BOOLEAN :
          IF threw
          THEN /\ ClNextCond
               /\ clFailed' = clFailed \union {clCond}
               /\ UNCHANGED clLog
          ELSE /\ UNCHANGED clFailed
               /\ IF TooLowToMerge(bal) \/ dryRun
                  THEN ClNextCond /\ UNCHANGED clLog
                  ELSE /\ clPc' = "merge"
                       /\ clLog' = clLog \union
                             {[cond |-> clCond, amount |-> MinShares(bal),
                               den |-> clReadDen, bal |-> bal]}
                       /\ UNCHANGED clCond
    /\ UNCHANGED <<clDen, clBal, clReadDen, clVisited>>
    /\ ClFrame

\* execSafeCall settles: the merge was mined (minShares of each token are
\* burnt) or the call failed (caught by the body's catch).
ClMergeSettles ==
    /\ clPc = "merge"
    /\ \E mined \in BOOLEAN :
          IF mined
          THEN /\ clBal' = [clBal EXCEPT ![clCond] =
                               [k \in Legs |-> @[k] - MinShares(clBal[clCond])]]
               /\ UNCHANGED clFailed
          ELSE /\ clFailed' = clFailed \union {clCond}
               /\ UNCHANGED clBal
    /\ ClNextCond
    /\ UNCHANGED <<clDen, clReadDen, clVisited, clLog>>
    /\ ClFrame

ClNext ==
    \/ \E c \in Conds : ClResolve(c)
    \/ ClStart
    \/ ClReadDenominator
    \/ ClReadBalances
    \/ ClMergeSettles

(***************************************************************************)
(* The adaptive controller's orders on the venue (mmExecutor.js            *)
(* adaptiveLegCL)                                                          *)
(***************************************************************************)

\* What no action of this part changes.
LmFrame ==
    /\ UNCHANGED <<venueOrder, venueSize, msRemaining, unfilledKey, sellShares,
                   redeemRuns, exitVia, qtySource, cancelLog>>
    /\ UNCHANGED walletLog
    /\ SplitIdle
    /\ UNCHANGED <<execVars, dispVars, adVars, posCfgVars, detVars, rdVars, feeVars,
                   rtVars, ctVars, clVars, rbVars, etVars>>

\* The venue still matches an order in this state.
Resting(state) == state \in {"open", "partial"}

\* The SELL orders of leg k resting on the venue: the leg's initial order and
\* the controller's limits in the book.
LiveOrders(k, book) ==
    (IF Resting(venueOrder[k]) THEN 1 ELSE 0)
      + Cardinality({i \in DOMAIN book : Resting(book[i].state)})

\* `await cancelOrder(activeOrderId)` returns, its result is not read: the
\* request is sent for a real order id, and the venue withdraws the order
\* unless the client call threw.  The active limit is the last one posted.
CancelActive(clientThrew) ==
    IF pmActive = "order" /\ CancelSent(pmActive) /\ ~clientThrew
    THEN [lmBook EXCEPT ![Len(lmBook)].state = VenueAfterCancel(@)]
    ELSE lmBook

\* What the controller submits to the venue, and what the wallet held and
\* the venue had resting for the leg at that moment.
Submission(kind, book) ==
    [side |-> kind, qty |-> sellShares, bal |-> tokenBal[unfilledKey],
     live |-> LiveOrders(unfilledKey, book)]

\* One iteration of the controller's loop.  Deadline: the active limit is
\* cancelled and the loop is left for the fallback market SELL.  Before it:
\* the active limit is found filled (isOrderFilled is true only for an order
\* the venue has matched; in a dry run the midpoint reached the target) and
\* the controller returns; or the midpoint is read, the active limit is
\* cancelled when the price says so, and with no active limit and the price
\* at or above the floor a limit for sellShares is placed; then
\* sleep(pollMs).  Which of these a midpoint selects is the subject of the
\* controller's own part above.
LmPoll ==
    /\ pmPc = "adaptiveLoop"
    /\ now >= pmWake
    /\ IF DeadlineReached(PosEnd - now)
       THEN /\ \E clientThrew \in BOOLEAN : lmBook' = CancelActive(clientThrew)
            /\ venueCalls' = IF CancelSent(pmActive) THEN venueCalls \cup {"cancel"}
                             ELSE venueCalls
            /\ pmActive' = "null"
            /\ pmPc' = "adaptiveSell"
            /\ pmWake' = 0
            /\ UNCHANGED <<pos, fillBy, lmLast>>
       ELSE \/ /\ pmActive # "null"
               /\ \E mid \in Mids \ {0} :
                     /\ IF dryRun THEN mid >= mmSellPrice
                        ELSE lmBook[Len(lmBook)].state = "filled"
                     /\ pos' = [pos EXCEPT !.filled[unfilledKey] = TRUE,
                                           !.fillPrice[unfilledKey] = mid,
                                           !.status = "done"]
               /\ fillBy' = [fillBy EXCEPT ![unfilledKey] =
                                IF dryRun THEN "midpoint" ELSE "venue"]
               /\ pmPc' = "ended"
               /\ pmWake' = 0
               /\ UNCHANGED <<pmActive, venueCalls, lmBook, lmLast>>
            \/ /\ \E cancelIt, placeIt, clientThrew, ok \in BOOLEAN :
                    LET cancelled == cancelIt /\ pmActive # "null"
                        book == IF cancelled THEN CancelActive(clientThrew) ELSE lmBook
                        placed == /\ placeIt
                                  /\ cancelled \/ pmActive = "null"
                                  /\ Len(lmBook) < MaxLimits
                        posted == placed /\ PostsToVenue
                    IN
                    /\ venueCalls' = venueCalls
                          \cup (IF cancelled /\ CancelSent(pmActive) THEN {"cancel"} ELSE {})
                          \cup (IF posted THEN {"post"} ELSE {})
                    /\ lmLast' = IF posted THEN Submission("limit", book) ELSE lmLast
                    /\ lmBook' = IF posted /\ ok
                                 THEN Append(book, [state |-> "open", left |-> sellShares])
                                 ELSE book
                    /\ pmActive' = IF placed
                                   THEN (IF dryRun THEN "sim"
                                         ELSE IF ok THEN "order" ELSE "null")
                                   ELSE IF cancelled THEN "null" ELSE pmActive
               /\ pmWake' = now + PollTicks
               /\ UNCHANGED <<pos, pmPc, fillBy>>
    /\ UNCHANGED <<tokenBal, sellFailed>>
    /\ LmFrame

\* The fallback marketSell(s.tokenId, sellShares, ...) returns:
\* s.fillPrice = result.fillPrice, s.filled = true, pos.status = 'done'.
LmSell ==
    /\ pmPc = "adaptiveSell"
    /\ \E result \in MarketSellOutcomes(unfilledKey, sellShares) :
          /\ pos' = [AfterMarketSell(pos, unfilledKey, result) EXCEPT !.status = "done"]
          /\ MarketSold(unfilledKey, sellShares, result)
    /\ lmLast' = IF PostsToVenue THEN Submission("market", lmBook) ELSE lmLast
    /\ pmPc' = "ended"
    /\ UNCHANGED <<pmWake, pmActive, fillBy, lmBook>>
    /\ LmFrame

\* While the task runs, the venue matches a resting limit of the controller,
\* in part (half of an open one) or in full; the matched tokens leave the
\* wallet, which must hold them.
LmVenueFill(i) ==
    /\ pmPc # "ended"
    /\ i \in DOMAIN lmBook
    /\ Resting(lmBook[i].state)
    /\ \E matched \in {lmBook[i].left \div 2, lmBook[i].left} :
          /\ matched > 0
          /\ matched < lmBook[i].left => lmBook[i].state = "open"
          /\ matched <= tokenBal[unfilledKey]
          /\ lmBook' = [lmBook EXCEPT
                           ![i].left = @ - matched,
                           ![i].state = IF matched = lmBook[i].left THEN "filled"
                                        ELSE "partial"]
          /\ tokenBal' = [tokenBal EXCEPT ![unfilledKey] = @ - matched]
    /\ UNCHANGED <<pmPc, pos, pmWake, pmActive, venueCalls, fillBy, sellFailed, lmLast>>
    /\ LmFrame

\* What is left of the initial limit SELL of leg k on the venue.
InitialLeft(k) ==
    IF venueOrder[k] = "open" THEN venueSize[k]
    ELSE venueSize[k] - venueSize[k] \div 2

\* The venue matches the initial order of leg k (see VenueFill) while the
\* wallet holds what is left of it.
LmInitialFill(k) ==
    /\ InitialLeft(k) <= tokenBal[k]
    /\ VenueFill(k)

\* The position task with the adaptive cut-loss, and the venue.
LmNext ==
    \/ StartupGuard
    \/ Cleanup
    \/ Enter
    \/ BalanceRead
    \/ SplitStep
    \/ SplitReturned
    \/ PlaceYes
    \/ PlaceNo
    \/ CheckFills
    \/ MonitorWake
    \/ AdaptiveCancel
    \/ AdaptiveBalance
    \/ LmPoll
    \/ LmSell
    \/ \E k \in Legs : LmInitialFill(k)
    \/ \E i \in 1..MaxLimits : LmVenueFill(i)
    \/ PosTick

(***************************************************************************)
(* The loops of a position whose end time may not parse (mmExecutor.js     *)
(* monitorAndManage, adaptiveLegCL)                                        *)
(***************************************************************************)

\* What no action of this part changes.
EtFrame == UNCHANGED <<partVars, clVars, rbVars, lmVars>>

\* new Date(pos.endTime).getTime() - Date.now() <= limit: a comparison with
\* NaN (endTime undefined or not a date) is false.
RemainingAtMost(limit) == etValid /\ etLeft <= limit

\* The clock after `ticks` more ticks: what is left of the market's lifetime.
LeftAfter(ticks) == IF etLeft > ticks THEN etLeft - ticks ELSE 0

EtOneLegFilled == etFilled["yes"] # etFilled["no"]

\* monitorAndManage starts for a market with some lifetime left, whose
\* endTime parses or not.
EtStart ==
    /\ etPc = "top"
    /\ etValid \in BOOLEAN
    /\ etLeft \in 1..MaxLeft
    /\ etFilled = [k \in Legs |-> FALSE]
    /\ etStatus = "monitoring"

\* Top of an iteration: if (msRemaining <= 0) { pos.status = 'expired'; break }
EtTop ==
    /\ etPc = "top"
    /\ IF RemainingAtMost(0)
       THEN etStatus' = "expired" /\ etPc' = "ended"
       ELSE etStatus' = etStatus /\ etPc' = "check"
    /\ UNCHANGED <<etValid, etLeft, etFilled>>
    /\ EtFrame

\* The fill checks return, for any answer of the venue.  Both legs filled:
\* done.  Adaptive cut-loss enabled and exactly one leg filled:
\* adaptiveLegCL.  msRemaining <= config.mmCutLossTime * 1000: cutting.
\* Otherwise sleep(10_000).
EtCheck ==
    /\ etPc = "check"
    /\ \E hit \in [Legs -> BOOLEAN] :
          /\ etFilled' = [k \in Legs |-> etFilled[k] \/ hit[k]]
          /\ IF \A k \in Legs : etFilled'[k]
             THEN etStatus' = "done" /\ etPc' = "ended"
             ELSE IF mmAdaptiveCL /\ etFilled'["yes"] # etFilled'["no"]
             THEN etStatus' = etStatus /\ etPc' = "adaptive"
             ELSE IF RemainingAtMost(mmCutLossTime * TicksPerSec)
             THEN etStatus' = "cutting" /\ etPc' = "cut"
             ELSE etStatus' = etStatus /\ etPc' = "sleep"
    /\ UNCHANGED <<etValid, etLeft>>
    /\ EtFrame

\* `await sleep(10_000)` returns; the requests of the iteration may have
\* taken a tick more.
EtSleep ==
    /\ etPc = "sleep"
    /\ \E ticks \in {MonitorTicks, MonitorTicks + 1} : etLeft' = LeftAfter(ticks)
    /\ etPc' = "top"
    /\ UNCHANGED <<etValid, etFilled, etStatus>>
    /\ EtFrame

\* The cut-loss returns: cutLossOneLegFilled, then pos.status = 'done'; or
\* cutLossNeitherFilled, which sets 'done' itself or throws out of the task
\* (its merge failed) with the status left at 'cutting'.
EtCut ==
    /\ etPc = "cut"
    /\ \E threw \in BOOLEAN :
          /\ threw => ~EtOneLegFilled
          /\ etStatus' = IF threw THEN etStatus ELSE "done"
    /\ etPc' = "ended"
    /\ UNCHANGED <<etValid, etLeft, etFilled>>
    /\ EtFrame

\* adaptiveLegCL, top of an iteration of its loop: at
\* msLeft <= config.mmCutLossTime * 1000 the loop is left for the market
\* SELL and the position is done; before it, the active limit is found
\* filled (done), or the iteration goes on to sleep(pollMs).
EtAdaptive ==
    /\ etPc = "adaptive"
    /\ IF RemainingAtMost(mmCutLossTime * TicksPerSec)
       THEN etStatus' = "done" /\ etPc' = "ended"
       ELSE \E limitFilled \in BOOLEAN :
               IF limitFilled
               THEN etStatus' = "done" /\ etPc' = "ended"
               ELSE etStatus' = etStatus /\ etPc' = "adaptiveSleep"
    /\ UNCHANGED <<etValid, etLeft, etFilled>>
    /\ EtFrame

\* `await sleep(pollMs)` of the controller returns.
EtAdaptiveSleep ==
    /\ etPc = "adaptiveSleep"
    /\ \E ticks \in {PollTicks, PollTicks + 1} : etLeft' = LeftAfter(ticks)
    /\ etPc' = "adaptive"
    /\ UNCHANGED <<etValid, etFilled, etStatus>>
    /\ EtFrame

\* A step of the position task: an await returns.
EtNext ==
    \/ EtTop
    \/ EtCheck
    \/ EtSleep
    \/ EtCut
    \/ EtAdaptive
    \/ EtAdaptiveSleep

(***************************************************************************)
(* Specifications                                                          *)
(***************************************************************************)

\* The configuration defaults (MM_SELL_PRICE 0.60, MM_ADAPTIVE_MIN_COMBINED
\* 1.20), for the parts that do not read these options.
CfgDefaults == ~dryRun /\ mmSellPrice = 60 /\ mmAdaptiveMinCombined = 120

\* The configuration defaults of the position task (MM_TRADE_SIZE 5, no
\* adaptive cut-loss, no recovery buy), for the parts that do not read them.
PosDefaults == mmTradeSize = 50 /\ ~mmAdaptiveCL /\ ~mmRecoveryBuy

\* The on-chain approvals of a wallet that has run the engine before.
WalletDefaults == allowance = MaxAllowance /\ isApprovedForAll

\* The parts that are not running: nothing of them has been called.
FinalInit == ClInit /\ RbInit /\ LmInit /\ EtInit

LateInit == DetInit /\ RdInit /\ FeeInit /\ RtInit /\ CtInit /\ FinalInit

InitExec ==
    /\ LateInit /\ ExecInit /\ DispInit /\ AdInit /\ CfgDefaults /\ SplitInit /\ WalletDefaults
    /\ PosInit /\ PosDefaults

SpecExec == InitExec /\ [][ExecNext]_vars

\* The event loop runs every ready reaction and every completed await.
SpecExecFair == SpecExec /\ WF_vars(ExecStep)

InitDispatch ==
    /\ LateInit /\ ExecInit /\ DispInit /\ AdInit /\ CfgDefaults /\ SplitInit /\ WalletDefaults
    /\ PosInit /\ PosDefaults

SpecDispatch == InitDispatch /\ [][DispNext]_vars

InitAdaptive ==
    /\ LateInit /\ ExecInit /\ DispInit /\ AdInit /\ SplitInit /\ WalletDefaults
    /\ PosInit /\ PosDefaults

SpecAdaptive == InitAdaptive /\ [][AdNext]_vars

\* Every await of the controller eventually returns.
SpecAdaptiveFair == SpecAdaptive /\ WF_vars(AdStep)

\* splitPosition called with any amount, in a dry run or live, for any
\* on-chain approvals.
InitSplit ==
    /\ LateInit /\ ExecInit /\ DispInit /\ AdInit /\ SplitInit
    /\ mmSellPrice = 60 /\ mmAdaptiveMinCombined = 120
    /\ PosInit /\ PosDefaults

SpecSplit == InitSplit /\ [][SplitNext]_vars

\* One process and its one position, in a dry run and live, for every trade
\* size, with the legacy cut-loss (with and without the recovery buy) and with
\* the adaptive one.  The run with MM_TRADE_SIZE 2.5 is the first of a new
\* wallet (no approvals given yet), the others use a wallet that has run the
\* engine before.
InitPosition ==
    /\ LateInit /\ ExecInit /\ DispInit /\ AdInit /\ SplitInit /\ PosInit
    /\ mmSellPrice = 60 /\ mmAdaptiveMinCombined = 120
    /\ mmRecoveryBuy => ~mmAdaptiveCL
    /\ allowance = IF mmTradeSize = MIN_SHARES_PER_SIDE THEN 0 ELSE MaxAllowance
    /\ isApprovedForAll <=> allowance = MaxAllowance

SpecPosition == InitPosition /\ [][PosNext]_vars

\* cancelOrder called up to MaxCancels times on the order ids of a position.
InitCancel ==
    /\ LateInit /\ ExecInit /\ DispInit /\ AdInit /\ SplitInit /\ WalletDefaults /\ CancelInit
    /\ mmSellPrice = 60 /\ mmAdaptiveMinCombined = 120

SpecCancel == InitCancel /\ [][CancelNext]_vars

\* The process from its start: the startup cleanup, then the detector with
\* NPolls polls whose metadata fetches take any time.
InitDetector ==
    /\ LateInit /\ ExecInit /\ DispInit /\ AdInit /\ CfgDefaults /\ SplitInit
    /\ WalletDefaults /\ PosInit /\ PosDefaults

SpecDetector == InitDetector /\ [][DetNext]_vars

\* The redeemer with NPasses passes over a wallet that holds tokens of two
\* conditions, in a dry run and live; the conditions resolve at any time.
InitRedeem ==
    /\ DetInit /\ FeeInit /\ RtInit /\ CtInit /\ FinalInit
    /\ RdIdle /\ rdBal \in [Conds -> HeldBalances]
    /\ ExecInit /\ DispInit /\ AdInit /\ SplitInit
    /\ mmSellPrice = 60 /\ mmAdaptiveMinCombined = 120
    /\ WalletDefaults /\ PosInit /\ PosDefaults

SpecRedeem == InitRedeem /\ [][RdNext]_vars

\* One attempt of a wallet transaction from its fee lookup on, for every
\* answer of the fee oracle.
InitFee ==
    /\ LateInit /\ ExecInit /\ DispInit /\ AdInit /\ CfgDefaults /\ SplitInit
    /\ WalletDefaults /\ PosInit /\ PosDefaults

SpecFee == InitFee /\ [][FeeNext]_vars

\* A split of any amount followed by the merge of its shares, in a dry run
\* and live, for any on-chain approvals, in a wallet with or without tokens
\* of an earlier split.
InitRoundTrip ==
    /\ LateInit /\ ExecInit /\ DispInit /\ AdInit /\ SplitInit
    /\ mmSellPrice = 60 /\ mmAdaptiveMinCombined = 120
    /\ PosInit /\ PosDefaults

SpecRoundTrip == InitRoundTrip /\ [][RtNext]_vars

\* NEvents BUY events of the watched trader for one market without a
\* position, arriving at any times, in a dry run and live.
InitCopyTrade ==
    /\ LateInit /\ ExecInit /\ DispInit /\ AdInit /\ SplitInit
    /\ mmSellPrice = 60 /\ mmAdaptiveMinCombined = 120
    /\ WalletDefaults /\ PosInit /\ PosDefaults

SpecCopyTrade == InitCopyTrade /\ [][CtNext]_vars

\* The merges of the startup cleanup over a wallet that holds tokens of two
\* conditions, in a dry run and live; the conditions resolve at any time.
InitCleanup ==
    /\ DetInit /\ RdInit /\ FeeInit /\ RtInit /\ CtInit
    /\ ClIdle /\ clBal \in [Conds -> LeftoverBalances] /\ RbInit /\ LmInit /\ EtInit
    /\ ExecInit /\ DispInit /\ AdInit /\ SplitInit
    /\ mmSellPrice = 60 /\ mmAdaptiveMinCombined = 120
    /\ WalletDefaults /\ PosInit /\ PosDefaults

SpecCleanup == InitCleanup /\ [][ClNext]_vars

\* A step of a position task: an await of executeMMStrategy returns.
TaskStep ==
    \E m \in Markets :
        TaskBalance(m) \/ TaskSplit(m) \/ TaskSells(m) \/ TaskMonitor(m) \/ TaskCut(m)

\* Every await of a position task eventually returns.
SpecDispatchFair == SpecDispatch /\ WF_vars(TaskStep)

\* A position task that runs the adaptive cut-loss, with the venue's view of
\* the controller's limits.
InitLimits ==
    /\ InitPosition
    /\ mmAdaptiveCL

SpecLimits == InitLimits /\ [][LmNext]_vars

\* The monitor loop of a position for every remaining lifetime and both
\* readings of its end time; every await eventually returns and time
\* advances with each sleep.
InitEndTime ==
    /\ DetInit /\ RdInit /\ FeeInit /\ RtInit /\ CtInit
    /\ ClInit /\ RbInit /\ LmInit /\ EtStart
    /\ ExecInit /\ DispInit /\ AdInit /\ SplitInit
    /\ mmSellPrice = 60 /\ mmAdaptiveMinCombined = 120
    /\ WalletDefaults /\ PosInit
    /\ mmTradeSize = 50 /\ ~mmRecoveryBuy

SpecEndTime == InitEndTime /\ [][EtNext]_vars /\ WF_vars(EtNext)

(***************************************************************************)
(* Claims about the dispatcher and the position tasks                      *)
(***************************************************************************)

\* C1: for every asset at most one position task is live (from the start of
\* entry until the task terminates); a market arriving while a task of its
\* asset is live is queued, not started.
C1_OneLivePerAsset ==
    \A a \in Assets :
        Cardinality({m \in Markets : MarketAsset(m) = a /\ TaskLive(m)}) <= 1

\* C4: whenever a position task has ended (status done or expired, or by an
\* error raised inside it) its position is not in the active set.
C4_EndedNotActive ==
    \A m \in Markets : TaskEnded(m) => m \notin activePositions

\* C5: when a task of asset A terminates the pending entry of A is removed;
\* it is started iff its remaining lifetime end_time - now is strictly
\* greater than mm_cut_loss_time, and discarded (never started) otherwise.
C5_PopByExactLifetime ==
    [][\A m \in Markets :
          /\ (TaskLive(m) /\ TaskEnded(m)') => pendingByAsset'[MarketAsset(m)] = NoMarket
          /\ (fate[m] = "pending" /\ fate'[m] \in {"popStarted", "popDiscarded"})
                => /\ fate'[m] = "popStarted"
                        <=> (MarketEnd(m) - now > mmCutLossTime * TicksPerSec)
                   /\ fate'[m] = "popStarted" <=> taskPc'[m] = "balance"
          /\ fate[m] = "popDiscarded" => taskPc'[m] = "idle"]_vars

\* C6: per asset the pending entry is the last market that arrived while
\* the asset was busy (last writer wins); a market replaced in the queue is
\* never started; an arrival changes no other asset's entry.
C6_PendingIsLastArrival ==
    /\ \A a \in Assets :
          pendingByAsset[a] # NoMarket =>
             (MarketAsset(pendingByAsset[a]) = a /\ fate[pendingByAsset[a]] = "pending")
    /\ \A m \in Markets :
          /\ fate[m] = "pending" => pendingByAsset[MarketAsset(m)] = m
          /\ fate[m] = "replaced" => taskPc[m] = "idle"

C9_LimitAtOrAboveFloor ==
    limitPrice # -1 => limitPrice >= MinAdaptivePrice

C10_DeadlinePath ==
    /\ limitPrice # -1 => limitMsLeft > mmCutLossTime * TicksPerSec
    /\ exitBy = "deadline" =>
          /\ msLeft <= mmCutLossTime * TicksPerSec
          /\ aPc \in {"deadlineCancel", "marketSell", "done"}
          /\ aPc = "deadlineCancel" <=> (hadActiveAtDeadline /\ deadlineCancels = 0)
          /\ aPc \in {"marketSell", "done"} =>
                (activeOrderId = "null" /\ deadlineCancels = IF hadActiveAtDeadline THEN 1 ELSE 0)
          /\ aPc = "done" <=> nMarketSells = 1
          /\ aPc = "done" => (status = "done" /\ sFilled)
    /\ nMarketSells <= 1
    /\ nMarketSells = 1 => exitBy = "deadline"

C15_SplitMinimum ==
    splitPc # "idle" =>
        /\ rejectedMin <=> amountUsdc < 2 * MIN_SHARES_PER_SIDE
        /\ amountUsdc < 2 * MIN_SHARES_PER_SIDE =>
              (splitPc = "threw" /\ CallsOfSplit = <<>> /\ splitShares = 0)

\* C17: both approvals are in place when a split call is enqueued; the
\* approve call is made only if the allowance was below the split amount, the
\* setApprovalForAll call only if the exchange was not an approved operator;
\* the calls come in the order approve, setApprovalForAll, split, each at
\* most once; with both approvals in place a live split that returns has
\* emitted exactly one wallet call.
C17_ApprovalsBeforeSplit ==
    LET calls == CallsOfSplit
        Has(kind) == \E i \in 1..Len(calls) : calls[i] = kind
    IN  /\ Has("split") => (approvedAtSplit /\ calls[Len(calls)] = "split")
        /\ Has("approve") => (~AllowanceEnough(allowanceAtCall, amountUsdc) /\ calls[1] = "approve")
        /\ Has("setApprovalForAll") => ~operatorAtCall
        /\ \A i, j \in 1..Len(calls) : calls[i] = calls[j] => i = j
        /\ (splitPc = "returned" /\ ~dryRun) => Has("split")
        /\ (splitPc = "returned" /\ ~dryRun
              /\ AllowanceEnough(allowanceAtCall, amountUsdc) /\ operatorAtCall)
           => calls = <<"split">>

\* A first split set both approvals; a second split made with them in place
\* has returned after exactly one wallet call.
C17_Witness ==
    /\ walletLog = <<"approve", "setApprovalForAll", "split", "split">>
    /\ callStart = 3
    /\ splitPc = "returned"

(***************************************************************************)
(* Claims about the wallet-tx serializer                                   *)
(***************************************************************************)

C3_QueueSurvivesErrors ==
    \A j \in Calls :
        /\ callState[j] = "failed" => (errSource[j] = j /\ attempt[j] >= 1)
        /\ Settled(j) => attempt[j] >= 1
        /\ (callState[j] = "queued" /\ \A i \in Calls : i < j => Settled(i))
              => ENABLED StartCall(j)

\* A call chained on the result of a call that failed has succeeded.
C3_Witness ==
    \E i, j \in Calls :
        /\ gate[j] = i /\ callState[i] = "failed" /\ errSource[i] = i
        /\ callState[j] = "ok"

\* C7: after an attempt fails with a fatal error (execution reverted,
\* insufficient funds, unpredictable gas limit, nonce already used) the call
\* fails terminally on that attempt: no back-off, no further attempt.
C7_NoRetryAfterFatal ==
    \A j \in Calls :
        fatalAt[j] # 0 => (callState[j] = "failed" /\ attempt[j] = fatalAt[j])

\* C8: every exec call makes at most 3 attempts, re-attempts after a
\* transient failure while attempts remain, resolves at the attempt that
\* obtained a receipt, fails terminally only when its 3rd attempt has
\* failed, and always terminates (again and again no enqueued call is
\* unresolved; a resolved call stays resolved).
C8_AttemptsBounded ==
    \A j \in Calls :
        /\ attempt[j] <= 3
        /\ execPc[j] = "backoff" => attempt[j] < 3
        /\ callState[j] = "failed" => (attempt[j] = 3 /\ lastErr[j] # "none")
        /\ callState[j] = "ok" => (executed[j] >= 1 /\ execPc[j] = "idle")
        /\ (callState[j] = "running" /\ lastErr[j] = "transient" /\ attempt[j] < 3)
              => execPc[j] # "idle"

C8_BoundedRetry ==
    /\ []C8_AttemptsBounded
    /\ [][\A j \in Calls : Settled(j) =>
              (callState'[j] = callState[j] /\ attempt'[j] = attempt[j])]_vars
    /\ []<>(\A j \in Calls : callState[j] \notin {"queued", "running"})

\* A call has succeeded at its third attempt after two transient failures,
\* and another has failed terminally.
C8_Witness ==
    /\ \E j \in Calls : callState[j] = "ok" /\ attempt[j] = 3 /\ lastErr[j] = "transient"
    /\ \E j \in Calls : callState[j] = "failed" /\ attempt[j] = 3

(***************************************************************************)
(* Claims about the position task                                          *)
(***************************************************************************)

\* C11: a position in status monitoring leaves the monitor loop only in an
\* iteration where both legs are filled (done), exactly one leg is filled and
\* the adaptive cut-loss is enabled (adaptiveLegCL), or the remaining lifetime
\* it read is at most 0 (expired) or at most mmCutLossTime (cutting); every
\* other step leaves it in the loop with status monitoring, and the task sends
\* nothing to the venue and cancels no resting order.
C11_MonitorExits ==
    [][ /\ pmPc \in {"check", "sleep"} =>
            \/ /\ pmPc' \in {"check", "sleep"}
               /\ pos'.status = "monitoring"
               /\ pos'.orderId = pos.orderId
               /\ venueCalls' = venueCalls
               /\ \A k \in Legs : venueOrder'[k] = "cancelled" => venueOrder[k] = "cancelled"
            \/ /\ pos'.status = "done"
               /\ pos'.filled["yes"] /\ pos'.filled["no"]
               /\ pmPc' = "ended"
            \/ /\ pos'.status = "monitoring"
               /\ mmAdaptiveCL
               /\ pos'.filled["yes"] # pos'.filled["no"]
               /\ pmPc' = "adaptiveCancel"
            \/ /\ pos'.status = "expired"
               /\ PosEnd - now <= 0
               /\ pmPc' = "ended"
            \/ /\ pos'.status = "cutting"
               /\ msRemaining <= mmCutLossTime * TicksPerSec
               /\ pmPc' \in {"legacyCancel", "neitherCancelYes"}
        /\ pmPc = "sellNo" =>
            \/ pos'.status = "none" /\ pmPc' = "sellNo"
            \/ pos'.status = "monitoring" /\ pmPc' = "check"
            \/ pos'.status = "expired" /\ PosEnd - now <= 0 /\ pmPc' = "ended"
      ]_vars

\* A position that left the loop at the cut-loss time with one leg filled.
C11_Witness ==
    /\ pmPc = "legacyCancel"
    /\ pos.status = "cutting"
    /\ exitVia = "cutting"
    /\ pos.filled["yes"] # pos.filled["no"]

\* C12: every sell or merge whose size depends on the quantity held (legacy
\* market sell, adaptive limits and deadline market sell, neither-filled
\* merge) takes its quantity from an on-chain balance read; the in-memory
\* shares count is never that quantity, also when the balance read fails.
C12_QuantityFromChain ==
    \A use \in qtySource : use[2] = "onchain"

\* C13: after a successful enter with trade size s the split was invoked for
\* 2*s collateral, each leg of the position holds s shares and the initial
\* limit SELLs are posted for s shares each.
C13_SharesPerLeg ==
    pos.status # "none" =>
        /\ amountUsdc = 2 * mmTradeSize
        /\ \A k \in Legs :
              /\ pos.shares[k] = mmTradeSize
              /\ venueOrder[k] # "none" => venueSize[k] = mmTradeSize

\* C14: every position has yes.shares = no.shares and both entry prices 0.5
\* (50 cents), and the four fields keep their values for the whole life of
\* the position.
C14_EqualLegsForLife ==
    [][ pos'.status # "none" =>
            /\ pos'.shares["yes"] = pos'.shares["no"]
            /\ pos'.entryPrice["yes"] = 50
            /\ pos'.entryPrice["no"] = 50
            /\ pos.status # "none" =>
                  (pos'.shares = pos.shares /\ pos'.entryPrice = pos.entryPrice)
      ]_vars

\* A position at the end of its life, closed by a cut-loss.
C14_Witness ==
    /\ pos.status = "done"
    /\ pmPc = "ended"
    /\ exitVia = "cutting"
    /\ pos.shares["yes"] > 0
    /\ pos.fillPrice["no"] # -1

\* C16: with MM_TRADE_SIZE 2.0 the engine never enters a market: no split is
\* executed, no limit order is posted and no position reaches monitoring.
C16_NoEntryBelowMinimum ==
    mmTradeSize = 20 =>
        /\ nSplits = 0
        /\ \A i \in 1..Len(walletLog) : walletLog[i] # "split"
        /\ "post" \notin venueCalls
        /\ \A k \in Legs : venueOrder[k] = "none"
        /\ pos.status = "none"

\* The process has exited on the startup guard.
C16_Witness == mmTradeSize = 20 /\ pmPc = "exited"

\* C19: a market SELL that is rejected or fills nothing leaves the leg's
\* filled flag and the position's status unchanged: a leg is never marked
\* filled, and a position never marked done, on a sell that did not fill.
C19_FailedSellKeepsLeg ==
    \A k \in Legs : sellFailed[k] => (~pos.filled[k] /\ pos.status # "done")

\* C20: in a dry run no MM operation enqueues a wallet exec call or posts or
\* cancels an order on the venue, and fills are detected only by comparing
\* the midpoint with mmSellPrice.
C20_DryRunWritesNothing ==
    dryRun =>
        /\ walletLog = <<>>
        /\ venueCalls = {}
        /\ \A k \in Legs :
              /\ venueOrder[k] = "none"
              /\ fillBy[k] # "venue"
              /\ fillBy[k] = "midpoint" => pos.fillPrice[k] >= mmSellPrice

\* A dry run that went through cleanup, enter, the monitor loop with a fill
\* by midpoint, a cut-loss of the other leg and the redeemer.
C20_Witness ==
    /\ dryRun
    /\ pmPc = "ended"
    /\ redeemRuns > 0
    /\ pos.status = "done"
    /\ exitVia \in {"cutting", "adaptive"}
    /\ \E k \in Legs : fillBy[k] = "midpoint"

(***************************************************************************)
(* Claims about cancelOrder                                                *)
(***************************************************************************)

\* C18 as stated: cancel of an order id that is unknown to the venue or
\* already settled returns success, and cancelling the same id twice returns
\* success both times.
C18_CancelAlwaysSucceeds ==
    \A i \in 1..Len(cancelLog) :
        /\ (cancelLog[i].id = "order"
              /\ cancelLog[i].state \in {"none", "filled", "cancelled"})
           => cancelLog[i].result
        /\ \A j \in 1..Len(cancelLog) :
              (i < j /\ cancelLog[i].leg = cancelLog[j].leg)
              => (cancelLog[i].result /\ cancelLog[j].result)

\* C18, amended: cancelOrder always returns to its caller (logged with a
\* result); it returns true without contacting the venue in a dry run and
\* for a null or simulated id; otherwise it returns true exactly when the
\* client's cancel request returned, whatever the venue knows of the order
\* (unknown, settled, cancelled before), and false when the request threw.
C18_CancelNonFatal ==
    \A i \in 1..Len(cancelLog) :
        LET e == cancelLog[i]
            sent == ~dryRun /\ e.id = "order"
        IN
        /\ e.result \in BOOLEAN
        /\ ~sent => (e.result /\ ~e.threw)
        /\ sent => (e.result <=> ~e.threw)

\* The same real order id cancelled twice, unknown to the venue the first
\* time, with success both times; and a cancel whose request threw.
C18_Witness ==
    /\ Len(cancelLog) = 3
    /\ cancelLog[1].leg = cancelLog[2].leg
    /\ cancelLog[1].id = "order"
    /\ cancelLog[1].state = "none"
    /\ cancelLog[1].result /\ cancelLog[2].result
    /\ cancelLog[3].threw /\ ~cancelLog[3].result

(***************************************************************************)
(* Claims about startup and the market detector                            *)
(***************************************************************************)

\* C21: every metadata fetch of a poll, and every market handed to the
\* callback, is for the slot one slot length after the start of the slot that
\* was current when the poll read the clock, never for that current slot.
C21_NextSlotOnly ==
    /\ \A p \in Polls : pollSlot[p] # 0 =>
          /\ pollSlot[p] = (pollStart[p] \div SlotTicks) * SlotTicks + SlotTicks
          /\ pollSlot[p] > pollStart[p]
    /\ \A c \in cbLog :
          /\ c.slot = pollSlot[c.poll]
          /\ c.slot # (pollStart[c.poll] \div SlotTicks) * SlotTicks

\* A market was handed to the callback by a poll that started inside a slot
\* (not on its boundary).
C21_Witness ==
    \E c \in cbLog : pollStart[c.poll] % SlotTicks # 0

\* C22: the callback is invoked at most once for every (asset, slot start).
C22_CallbackOncePerKey ==
    \A c, d \in cbLog :
        (c.asset = d.asset /\ c.slot = d.slot) => c.poll = d.poll

\* C23: while the startup cleanup is cancelling orders or merging, the
\* detector has not been started, no poll has run and no market has been
\* handed to the callback; once the cleanup has returned or thrown, the
\* detector can start.
C23_CleanupBeforeDetector ==
    /\ cleanupPc \in {"idle", "cancelling", "merging"} =>
          /\ ~detStarted
          /\ \A p \in Polls : pollSlot[p] = 0
          /\ cbLog = {}
    /\ (cleanupPc \in {"returned", "threw"} /\ ~detStarted) => ENABLED StartMMDetector

\* The cleanup threw, the detector started all the same and handed a market
\* to the callback.
C23_Witness ==
    cleanupPc = "threw" /\ detStarted /\ cbLog # {}

(***************************************************************************)
(* Claims about the redeemer                                               *)
(***************************************************************************)

\* C24: every redeemPositions call of a pass is for a condition whose payout
\* denominator the pass read as non-zero (and which is non-zero on-chain) and
\* whose token balances the pass read with a total of at least 0.001; and a
\* pass that has gone through its list has examined every condition, also
\* those an earlier pass skipped as unresolved.
C24_RedeemOnlyResolvedHeld ==
    /\ \A r \in rdLog :
          /\ r.den # 0 /\ rdDen[r.cond] # 0
          /\ r.total >= RedeemDust
    /\ \A p \in Passes : rdPc[p] = "done" => rdExamined[p] = Conds

\* A condition was skipped as unresolved by the first pass and redeemed by
\* the second.
C24_Witness ==
    \E c \in Conds :
        /\ <<1, c>> \in rdSkipped
        /\ \E r \in rdLog : r.pass = 2 /\ r.cond = c
        /\ rdPc[2] = "done"

(***************************************************************************)
(* Claims about the fees of a wallet transaction                           *)
(***************************************************************************)

\* C25: every submitted wallet transaction carries a priority fee of at
\* least 30 gwei and a max fee of at most 500 gwei, whatever the fee oracle
\* returned.
C25_FeeFloorAndCap ==
    feePc = "submitted" =>
        /\ txFees.maxPriorityFeePerGas >= MIN_TIP
        /\ txFees.maxFeePerGas <= DefaultFeeCap

(***************************************************************************)
(* Claims about the split / merge round trip                               *)
(***************************************************************************)

C27_BothLegsFillEarly ==
    (mmTradeSize = 50 /\ mmSellPrice = 60 /\ exitVia = "both") =>
        /\ pos.status = "done"
        /\ \A k \in Legs :
              /\ pos.filled[k]
              /\ pos.fillPrice[k] = 60
              /\ LegPnl(pos, k) = 500
        /\ CalcPnl(pos) = 1000

(***************************************************************************)
(* Claims about the copy-trade events                                      *)
(***************************************************************************)

\* C28: at most one BUY event of the market is being executed at any time,
\* and the buys for the market never spend more than the position cap.
C28_SerializedPerMarket ==
    /\ Cardinality(InFlight) <= 1
    /\ ctSpent <= maxPositionSize

(***************************************************************************)
(* Claims about the cut-loss with neither leg filled                       *)
(***************************************************************************)

\* C29: in the neither-filled cut the merge is submitted after the cancels
\* and both balance reads, for the minimum of the two on-chain balances, and
\* not when that minimum is below the threshold; when the cut is left
\* (cutLossNeitherFilled returns or throws) both legs are closed at their
\* entry price and the status is done.
C29_NeitherFilledCut ==
    [][ LET mergeSubmitted == pmPc = "neitherBalance" /\ pmPc' = "mergeWait"
            cutLeft == /\ pmPc \in {"neitherBalance", "mergeWait"}
                       /\ pmPc' \notin {"neitherBalance", "mergeWait"}
        IN
        /\ mergeSubmitted =>
              /\ sellShares' = Min(tokenBal["yes"], tokenBal["no"])
              /\ ~NothingToSell(sellShares')
        /\ (mergeSubmitted /\ PostsToVenue
                /\ \E k \in Legs : pos.orderId[k] = "order") =>
              "cancel" \in venueCalls
        /\ cutLeft =>
              /\ pos'.status = "done"
              /\ \A k \in Legs :
                    pos'.filled[k] /\ pos'.fillPrice[k] = pos'.entryPrice[k]
      ]_vars


\* C30: in an iteration of the adaptive controller that is before the
\* deadline and reads a midpoint m > 0, with target = min(m, mm_sell_price):
\* an active limit at L is cancelled iff m < floor or m < 0.95 L or
\* target > 1.02 L; placeLimitSell is called at the end of the iteration iff
\* no limit is then active and m >= floor, and the limit it posts is at
\* target; when m < floor nothing is posted and no limit remains active.
C30_AdjustAndPost ==
    [][ LET m       == currentPrice'
            floor   == MinAdaptivePrice
            target  == Min(m, mmSellPrice)
            L       == activeLimitPrice
            reads   == aPc = "mid" /\ aPc' # "mid" /\ m > 0
            cancels == aPc' = "adjust"
            posts   == aPc' = "place"
            decided == \/ reads /\ ~cancels
                       \/ aPc = "adjust" /\ aPc' # "adjust"
        IN
        /\ (reads /\ activeOrderId # "null") =>
              (cancels <=> (m < floor \/ m * 100 < L * 95 \/ target * 100 > L * 102))
        /\ (reads /\ activeOrderId = "null") => ~cancels
        /\ (aPc = "adjust" /\ aPc' # "adjust") => activeOrderId' = "null"
        /\ decided => (posts <=> (activeOrderId' = "null" /\ m >= floor))
        /\ (decided /\ m < floor) => (~posts /\ activeOrderId' = "null")
        /\ (decided /\ ~posts) => aPc' = "sleep"
        /\ (aPc = "place" /\ aPc' # "place") =>
              /\ activeOrderId = "null"
              /\ aPc' = "sleep"
              /\ activeOrderId' # "null" =>
                    (activeLimitPrice' = target /\ limitPrice' = target)
      ]_vars

\* An active limit is being cancelled only because the price improved: the
\* midpoint is at or above the floor and has not dropped 5% below the limit.
C30_Witness ==
    /\ aPc = "adjust" /\ activeOrderId = "order"
    /\ currentPrice >= MinAdaptivePrice
    /\ currentPrice * 100 >= activeLimitPrice * 95
    /\ Min(currentPrice, mmSellPrice) * 100 > activeLimitPrice * 102

(***************************************************************************)
(* Claims about the merges of the startup cleanup                          *)
(***************************************************************************)

\* C31: the startup cleanup submits a merge for a condition iff the
\* condition is unresolved (the denominator it read is 0) and both of its
\* tokens have an on-chain balance of at least MIN_SHARES_PER_SIDE (a live
\* run whose reads succeed); the amount is the minimum of the two balances;
\* a condition read as resolved gets no merge; and a failure for one
\* condition does not stop the cleanup of the others: when the loop is over
\* the body has run for every condition.
C31_CleanupMerges ==
    /\ [](\A m \in clLog :
             /\ m.den = 0
             /\ m.bal["yes"] >= MIN_SHARES_PER_SIDE
             /\ m.bal["no"] >= MIN_SHARES_PER_SIDE
             /\ m.amount <= m.bal["yes"] /\ m.amount <= m.bal["no"]
             /\ m.amount \in {m.bal["yes"], m.bal["no"]})
    /\ [](clPc = "done" => clVisited = Conds)
    /\ [](clPc = "merge" =>
             \E m \in clLog : m.cond = clCond /\ m.bal = clBal[clCond])
    /\ [][ /\ (clPc = "den" /\ clPc' # "den" /\ clReadDen' # 0 /\ clCond \notin clFailed')
                => (clLog' = clLog /\ clPc' # "bal")
           /\ (clPc = "bal" /\ clPc' # "bal" /\ clCond \notin clFailed') =>
                ((clLog' # clLog) <=>
                   /\ ~dryRun
                   /\ clReadDen = 0
                   /\ clBal[clCond]["yes"] >= MIN_SHARES_PER_SIDE
                   /\ clBal[clCond]["no"] >= MIN_SHARES_PER_SIDE)
           /\ clPc \notin {"bal"} => clLog' = clLog
         ]_vars

\* The cleanup is over: the merge of the first condition failed, and the
\* second condition was merged for the minimum of its unequal balances.
C31_Witness ==
    /\ clPc = "done"
    /\ "c1" \in clFailed
    /\ \E m \in clLog : m.cond = "c1"
    /\ \E m \in clLog :
          /\ m.cond = "c2" /\ m.bal["yes"] = 50 /\ m.bal["no"] = 25 /\ m.amount = 25
    /\ clBal["c2"] = [yes |-> 25, no |-> 0]

(***************************************************************************)
(* Claims about the recovery buy                                           *)
(***************************************************************************)

\* C32: a recovery market-BUY is submitted only when mm_recovery_buy is
\* enabled, the position has just been closed by the neither-filled cut
\* (status done, both legs closed at entry), the bought side's last sample
\* is at or above mm_recovery_threshold and at or above its first sample,
\* and the collateral balance read is at least the recovery size; a position
\* has at most one recovery BUY and at most one follow-up SELL, the SELL only
\* after a BUY, with at least 5 s of lifetime left after the hold and a
\* midpoint below the fill price; nothing of it is submitted in a dry run.
C32_RecoveryBuyGuards ==
    /\ [](/\ rbBuys <= 1 /\ rbSells <= 1 /\ rbSells <= rbBuys
          /\ (rbBuys = 1 <=> rbBuy # NoOrder)
          /\ (rbSells = 1 <=> rbSell # NoOrder)
          /\ rbBuy # NoOrder =>
                /\ mmRecoveryBuy /\ ~dryRun
                /\ rbBuy.status = "done" /\ rbBuy.via = "cutting"
                /\ pos.status = "done"
                /\ \A k \in Legs : pos.filled[k] /\ pos.fillPrice[k] = pos.entryPrice[k]
                /\ rbBuy.lastPrice >= mmRecoveryThreshold
                /\ rbBuy.lastPrice >= rbBuy.firstPrice
                /\ rbBuy.balance >= rbBuy.size
                /\ rbBuy.size = mmTradeSize
          /\ rbSell # NoOrder =>
                /\ ~dryRun
                /\ rbSell.msLeft >= ClosingTicks
                /\ rbSell.mid > 0 /\ rbSell.mid < rbSell.entryPrice)
    /\ [][ /\ rbBuys' # rbBuys => (pmPc = "recovery" /\ pmPc' # "recovery")
           /\ rbSells' # rbSells =>
                 (pmPc = "recoveryHold" /\ pmPc' = "ended" /\ now >= rbWake
                    /\ rbSell'.msLeft = PosEnd - now)
           /\ pmPc' = "recovery" =>
                 pmPc \in {"recovery", "neitherBalance", "mergeWait"}
         ]_vars

\* A recovery BUY was filled above the candidate's price, and after the hold
\* the midpoint had fallen below the fill price with lifetime left: the
\* follow-up SELL was submitted.
C32_Witness ==
    /\ pmPc = "ended"
    /\ rbBuys = 1 /\ rbSells = 1
    /\ rbBuy.lastPrice = 75 /\ rbEntry = 80
    /\ rbSell.mid = 75

(***************************************************************************)
(* Claims about a failed initial limit SELL                                *)
(***************************************************************************)

\* C33: when the post of an initial limit SELL has failed (live: the venue
\* holds no order of the leg although the position was built), the leg's
\* tokens have been merged or sold by the time the task ends, and the leg is
\* not marked filled other than closed at its entry price by the merge.
C33_FailedLegIsCut ==
    (pmPc = "ended" /\ ~dryRun /\ pos.status # "none") =>
        \A k \in Legs :
            venueOrder[k] = "none" =>
                /\ NothingToSell(tokenBal[k])
                /\ pos.filled[k] => pos.fillPrice[k] = pos.entryPrice[k]

(***************************************************************************)
(* Claims about the keys the detector has seen                             *)
(***************************************************************************)

\* C34: for a next-slot key (asset, slot start): a fetch that returns no
\* market leaves the key unmarked, and every poll that starts while the key
\* is unmarked queries it; a fetch that returns metadata marks the key, and
\* the market is handed to the callback iff both token ids are present and
\* the slot has been open for at most the freshness window; a key that is
\* marked is neither queried nor handed to the callback again.
C34_SeenKeyLifecycle ==
    [][ \A p \in Polls, a \in Assets :
          /\ (fetchPc[p][a] = "none" /\ fetchPc'[p][a] # "none") =>
                (fetchPc'[p][a] = "fetching" <=> <<a, pollSlot'[p]>> \notin seenKeys')
          /\ (fetchPc[p][a] = "fetching" /\ fetchPc'[p][a] # "fetching") =>
                LET key == <<a, pollSlot[p]>>
                    emitted == \E c \in cbLog' \ cbLog : c.asset = a /\ c.slot = pollSlot[p]
                IN  /\ fetchPc'[p][a] = "null" => (seenKeys' = seenKeys /\ ~emitted)
                    /\ fetchPc'[p][a] # "null" => key \in seenKeys'
                    /\ fetchPc'[p][a] = "nodata" => ~emitted
                    /\ fetchPc'[p][a] = "market" =>
                          (emitted <=> now - pollSlot[p] <= FreshTicks)
                    /\ key \in seenKeys => ~emitted
      ]_vars

(***************************************************************************)
(* Claims about the execution of an exec call's target                    *)
(***************************************************************************)

\* C35: the target call of every exec call is executed on-chain at most
\* once, whatever attempts failed after their transaction was submitted.
C35_ExecutedAtMostOnce ==
    \A j \in Calls : executed[j] <= 1


(***************************************************************************)
(* Claims about the fate of a queued market                                *)
(***************************************************************************)

C37_OneLiveLimit ==
    unfilledKey \in Legs =>
        /\ LiveOrders(unfilledKey, lmBook) <= 1
        /\ lmLast.side = "limit" => lmLast.live = 0


\* C38: the quantity of every SELL the adaptive controller submits, each
\* limit and the fallback market SELL, is at most the unfilled leg's on-chain
\* balance at that moment.
C38_QuantityWithinBalance ==
    lmLast.side # "none" => lmLast.qty <= lmLast.bal

\* C38, the claim's own case: the balance was read on-chain with the initial
\* order withdrawn, and the controller's earlier limit was matched in part
\* before its cancel.
C38_AfterPartialFill ==
    (/\ qtySource = {<<"adaptive", "onchain">>}
     /\ unfilledKey \in Legs
     /\ venueOrder[unfilledKey] = "cancelled"
     /\ venueSize[unfilledKey] = sellShares)
        => (lmLast.side # "none" => lmLast.qty <= lmLast.bal)


(***************************************************************************)
(* Claims about the termination of a position task                         *)
(***************************************************************************)

\* C39: every position task eventually returns, for every behaviour of the
\* fills, whether or not the market's end time parses.
C39_TaskReturns ==
    <>(etPc = "ended")

(***************************************************************************)
(* Claims about what a finished position leaves on the venue               *)
(***************************************************************************)

\* C40: when the position has ended with status done or expired, none of
\* its initial limit orders is resting on the venue: each has been matched
\* in full or withdrawn.
C40_NoOrderLeftResting ==
    (pmPc = "ended" /\ pos.status \in {"done", "expired"}) =>
        \A k \in Legs : venueOrder[k] \notin {"open", "partial"}

====
